---- MODULE Spec2Model ----
(***************************************************************************)
(* Verification model of the lifeahtlas engines and stores.                *)
(*                                                                         *)
(* Money is fixed-point: an amount is an integer number of mills           *)
(* (1/1000 of a currency unit), so 0.01 currency units is 10 mills and     *)
(* Math.round(x * 100) / 100 is rounding to a multiple of 10 mills.        *)
(* A product with a rate is rounded down to the mill.                      *)
(*                                                                         *)
(* A calendar date is <<mi, d>>: mi the number of months since January of  *)
(* the base year (a leap year), d the day of the month.  A 'yyyy-MM'       *)
(* month label is the month index mi.                                      *)
(***************************************************************************)
EXTENDS Integers, Sequences, FiniteSets, Bags, TLC

VARIABLES
    \* computeDebtPayoff
    debtPlans,      \* input.debtPlans
    maxMonths,      \* input.maxMonths
    dpc,            \* position in computeDebtPayoff: "start", "loop", "done"
    debts,          \* working state per debt
    schedule,       \* DebtPayoffMonth[]
    m,              \* loop counter
    monthLog,       \* locals of the last executed loop iteration
    summaries,      \* DebtPayoffSummary[] of the returned result
    \* computeStressScores
    phases,         \* input.phases
    projections,    \* input.projections
    startDate,      \* input.startDate
    months,         \* input.months
    spc,            \* position in computeStressScores: "loop", "done"
    sm,             \* loop counter
    activeLog,      \* activePhases of every executed iteration (list positions)
    scores,         \* StressScore[]
    \* the database (db.persons, db.scenarios and the tables keyed by scenarioId)
    persons,        \* ids of the stored persons
    scenarios,      \* stored scenarios: [id, personId]
    rows,           \* per table, its stored rows: [id, scenarioId]
    nextId,         \* the next value of uuid()
    \* computeProjection
    finInput,       \* input: accounts, incomeStreams, expenseRules, startDate, months
    fpc,            \* position in computeProjection: "start", "loop", "done"
    fm,             \* loop counter m
    netWorth,       \* running net worth, mills
    balances,       \* per account: balance (debts negative) and yearly rate
    flowLog,        \* netCashflow and interestEarned of every executed iteration
    finProjections, \* MonthlyProjection[]
    \* longevity-engine
    lonInput,       \* the function called and its arguments (currentAge in half years)
    lpc,            \* position in the function: "loop", "done"
    age,            \* loop variable
    survival,       \* running survival probability
    points,         \* the points pushed so far
    lonResult,      \* the returned value
    \* timeline-engine
    tlInput,        \* the function called and its arguments
    tpc,            \* position in the call: "start", "date", "rows", "done"
    tlResult,       \* the values computed so far
    \* uiStore
    viewport,       \* offsetX, offsetY, pixelsPerDay
    zoomLevel,      \* ZoomLevel
    uiEvents,       \* the number of calls and gestures handled so far
    \* computeSavingsProjection
    goals,          \* the argument
    gpc,            \* position in computeSavingsProjection: "goal", "month", "done"
    gi,             \* index of the goal of the for loop
    cursor,         \* d, the date of the while loop
    balance,        \* running balance of the goal, mills
    result,         \* SavingsProjectionMonth[]
    \* the calls of the stores that are in flight
    calls,          \* applyTemplate and duplicate calls between their two awaits
    storeError,     \* the errors the duplicate calls have thrown
    \* computeScenarioDiff
    diffInput,      \* the arguments
    diffPc,         \* position in computeScenarioDiff: "start", "done"
    diffResult,     \* the ScenarioDiff returned
    \* the uncertainty band of computeProjection
    bandInput,      \* the month index the loop has reached
    bandPc,         \* position: "loop", "done"
    bands           \* month, net worth (half units) and band of the entries pushed

debtVars == <<debtPlans, maxMonths, dpc, debts, schedule, m, monthLog, summaries>>

stressVars == <<phases, projections, startDate, months, spc, sm, activeLog, scores>>

storeVars == <<persons, scenarios, rows, nextId>>

finVars == <<finInput, fpc, fm, netWorth, balances, flowLog, finProjections>>

lonVars == <<lonInput, lpc, age, survival, points, lonResult>>

timelineVars == <<tlInput, tpc, tlResult>>

uiVars == <<viewport, zoomLevel, uiEvents>>

savingsVars == <<goals, gpc, gi, cursor, balance, result>>

callVars == <<calls, storeError>>

diffVars == <<diffInput, diffPc, diffResult>>

bandVars == <<bandInput, bandPc, bands>>

vars == <<debtVars, stressVars, storeVars, finVars, lonVars, timelineVars, uiVars, savingsVars, callVars, diffVars, bandVars>>

----------------------------------------------------------------------------
(* Arithmetic helpers *)

Min(a, b) == IF a <= b THEN a ELSE b

Max(a, b) == IF a >= b THEN a ELSE b

RECURSIVE SumSeq(_)
SumSeq(s) == IF s = <<>> THEN 0 ELSE Head(s) + SumSeq(Tail(s))

\* Math.round(x * 100) / 100 on mills: to the nearest cent, halves upward
RoundCents(x) == ((x + 5) \div 10) * 10

\* the 0.01 currency-unit paid-off threshold, in mills
PaidOffThreshold == 10

----------------------------------------------------------------------------
(* date-fns on <<month index, day>> dates *)

IsLeapYear(y) == y % 4 = 0

DaysInMonth(mi) ==
    LET moy == mi % 12
        y == mi \div 12
    IN  IF moy = 1 THEN (IF IsLeapYear(y) THEN 29 ELSE 28)
        ELSE IF moy \in {3, 5, 8, 10} THEN 30 ELSE 31

\* addMonths: same day of month, clamped to the last day of the target month
addMonths(date, n) == <<date[1] + n, Min(date[2], DaysInMonth(date[1] + n))>>

isBefore(a, b) == a[1] < b[1] \/ (a[1] = b[1] /\ a[2] < b[2])

isAfter(a, b) == isBefore(b, a)

\* format(date, 'yyyy-MM')
formatMonth(date) == date[1]

----------------------------------------------------------------------------
(* computeDebtPayoff: bounds and inputs *)

MaxDebts == 2

MaxMonths == 6

NoMonth == -1   \* payoffMonth: ''

Strategies == {"minimum-payment", "fixed-payment", "snowball", "avalanche"}

DebtBalances == {500, 1007, 2500}

DebtRates == {0, 120}            \* annualInterestRate, percent

DebtMinimums == {100, 1000}

DebtExtras == {0, 300}

DebtMonthlyPayments == {600}

DebtStartDates == {<<0, 1>>, <<2, 15>>}

DebtPlanInputs ==
    [principalBalance : DebtBalances, annualInterestRate : DebtRates,
     minimumPayment : DebtMinimums, monthlyPayment : DebtMonthlyPayments,
     extraPayment : DebtExtras, strategy : Strategies,
     startDate : DebtStartDates]

DebtPlanLists == UNION {[1..n -> DebtPlanInputs] : n \in 0..MaxDebts}

----------------------------------------------------------------------------
(* computeDebtPayoff: the steps of one run *)

\* debt.balance * debt.rate, rate = annualInterestRate / 100 / 12
TimesRate(x, annualRate) == (x * annualRate) \div 1200

\* debt.balance * debt.rate / (1 + debt.rate)
TimesRateOverOnePlusRate(x, annualRate) == (x * annualRate) \div (1200 + annualRate)

\* debtPlans.map((d) => ({...})): the id of a plan is its position in the list
WorkingDebts(plans) ==
    [i \in DOMAIN plans |->
        [id |-> i,
         balance |-> plans[i].principalBalance,
         originalBalance |-> plans[i].principalBalance,
         rate |-> plans[i].annualInterestRate,
         minimum |-> plans[i].minimumPayment,
         monthlyPayment |-> plans[i].monthlyPayment,
         extra |-> plans[i].extraPayment,
         strategy |-> plans[i].strategy,
         startDate |-> plans[i].startDate,
         totalInterest |-> 0,
         totalPaid |-> 0,
         paidOff |-> FALSE,
         payoffMonth |-> NoMonth,
         monthsToPayoff |-> 0]]

isPooled(ds) == \E i \in DOMAIN ds : ds[i].strategy \in {"snowball", "avalanche"}

totalExtraBudget(ds) ==
    IF isPooled(ds) THEN SumSeq([i \in DOMAIN ds |-> ds[i].extra]) ELSE 0

RECURSIVE EarliestFrom(_, _, _)
EarliestFrom(ds, k, min) ==
    IF k > Len(ds) THEN min
    ELSE EarliestFrom(ds, k + 1,
                      IF isBefore(ds[k].startDate, min) THEN ds[k].startDate ELSE min)

earliestStart(ds) == EarliestFrom(ds, 1, ds[1].startDate)

Indices(ds) == [i \in 1..Len(ds) |-> i]

IsActive(d, currentDate) == ~d.paidOff /\ ~isBefore(currentDate, d.startDate)

\* debts.filter(...), as the list of positions, in list order
activeDebts(ds, currentDate) ==
    LET Test(i) == IsActive(ds[i], currentDate)
    IN  SelectSeq(Indices(ds), Test)

InSeq(x, s) == \E k \in DOMAIN s : s[k] = x

\* Step 1: charge interest on all active debts
ChargeInterest(ds, act) ==
    [i \in DOMAIN ds |->
        IF InSeq(i, act)
        THEN LET interest == TimesRate(ds[i].balance, ds[i].rate)
             IN  [ds[i] EXCEPT !.balance = @ + interest,
                               !.totalInterest = @ + interest]
        ELSE ds[i]]

\* the minimum in full, whatever is owed
MinimumPayment_Uncapped(d) == d.minimum

\* Math.min(debt.minimum, debt.balance)
MinimumPayment(d) == Min(d.minimum, d.balance)

\* Step 2: apply minimum payments
ApplyMinimums(ds, act) ==
    [i \in DOMAIN ds |->
        IF InSeq(i, act)
        THEN LET payment == MinimumPayment(ds[i])
             IN  [ds[i] EXCEPT !.balance = @ - payment, !.totalPaid = @ + payment]
        ELSE ds[i]]

\* the schedule entry pushed in step 2; d is the debt after the payment
MinimumEntry(d, payment, monthStr) ==
    LET interest == IF d.balance >= 0
                    THEN TimesRateOverOnePlusRate(d.balance, d.rate) ELSE 0
    IN  [month |-> monthStr,
         debtId |-> d.id,
         startingBalance |-> d.balance + payment,
         payment |-> payment,
         interestCharged |-> RoundCents(interest),
         principalPaid |-> RoundCents(payment - interest),
         endingBalance |-> RoundCents(d.balance),
         isPaidOff |-> d.balance <= PaidOffThreshold]

MinimumEntries(before, after, act, monthStr) ==
    [k \in DOMAIN act |->
        MinimumEntry(after[act[k]], MinimumPayment(before[act[k]]), monthStr)]

\* Array.prototype.sort (stable) with a numeric comparator key[a] - key[b]:
\* insert x before the first element whose key is larger
RECURSIVE InsertInto(_, _, _)
InsertInto(acc, x, key) ==
    IF acc = <<>> THEN <<x>>
    ELSE IF key[x] < key[Head(acc)] THEN <<x>> \o acc
    ELSE <<Head(acc)>> \o InsertInto(Tail(acc), x, key)

RECURSIVE SortFrom(_, _, _, _)
SortFrom(s, k, acc, key) ==
    IF k > Len(s) THEN acc
    ELSE SortFrom(s, k + 1, InsertInto(acc, s[k], key), key)

StableSort(s, key) == SortFrom(s, 1, <<>>, key)

\* if (debts[0].strategy === DebtStrategy.Snowball)
SortKeyIsSnowball(ds) == ds[1].strategy = "snowball"

\* Step 3, pooled: "Sort for target priority"
sorted(ds, act) ==
    LET Owing(i) == ds[i].balance > PaidOffThreshold
        cand == SelectSeq(act, Owing)
    IN  IF SortKeyIsSnowball(ds)
        THEN StableSort(cand, [i \in DOMAIN ds |-> ds[i].balance])
        ELSE StableSort(cand, [i \in DOMAIN ds |-> 0 - ds[i].rate])

paidOffMinimums(ds) ==
    SumSeq([i \in DOMAIN ds |-> IF ds[i].paidOff THEN ds[i].minimum ELSE 0])

\* the budget the pooled branch starts the month with
PoolBudget(ds) == totalExtraBudget(ds) + paidOffMinimums(ds)

\* for (const debt of sorted) { if (remaining <= 0) break; ... }
RECURSIVE PoolAlloc(_, _, _, _)
PoolAlloc(ds, order, k, remaining) ==
    IF k > Len(order) \/ remaining <= 0 THEN [i \in DOMAIN ds |-> 0]
    ELSE LET i == order[k]
             extra == Min(remaining, ds[i].balance)
         IN  [PoolAlloc(ds, order, k + 1, remaining - extra) EXCEPT ![i] = extra]

\* Step 3, non-pooled: "each debt gets its own extra"
extraForThis(d) ==
    IF d.strategy = "fixed-payment" THEN d.monthlyPayment - d.minimum ELSE d.extra

OwnExtra(d) ==
    IF d.balance <= PaidOffThreshold THEN 0
    ELSE IF extraForThis(d) <= 0 THEN 0
    ELSE Min(extraForThis(d), d.balance)

\* which branch of step 3 the month takes
TakesPooledBranch(ds) == isPooled(ds) /\ totalExtraBudget(ds) > 0

\* the extra applied to each debt this month (0: the debt is not touched)
ExtraPayments(ds, act) ==
    IF TakesPooledBranch(ds)
    THEN PoolAlloc(ds, sorted(ds, act), 1, PoolBudget(ds))
    ELSE [i \in DOMAIN ds |-> IF InSeq(i, act) THEN OwnExtra(ds[i]) ELSE 0]

\* the extras with the running total of payments decremented
ApplyExtras_SignSlip(ds, ex) ==
    [i \in DOMAIN ds |->
        IF ex[i] # 0
        THEN [ds[i] EXCEPT !.balance = @ - ex[i], !.totalPaid = @ - ex[i]]
        ELSE ds[i]]

ApplyExtras(ds, ex) ==
    [i \in DOMAIN ds |->
        IF ex[i] # 0
        THEN [ds[i] EXCEPT !.balance = @ - ex[i], !.totalPaid = @ + ex[i]]
        ELSE ds[i]]

\* schedule.filter((e) => e.debtId === debt.id).pop()
LastEntryOf(sch, id) ==
    LET ks == {k \in DOMAIN sch : sch[k].debtId = id}
    IN  IF ks = {} THEN 0 ELSE CHOOSE k \in ks : \A j \in ks : j <= k

\* "Update last schedule entry for this debt"; ds is the state after the extras
UpdateEntries(sch, ds, ex) ==
    [k \in DOMAIN sch |->
        LET i == sch[k].debtId
        IN  IF ex[i] # 0 /\ k = LastEntryOf(sch, i)
            THEN [sch[k] EXCEPT !.payment = @ + ex[i],
                                !.principalPaid = @ + ex[i],
                                !.endingBalance = RoundCents(ds[i].balance),
                                !.isPaidOff = ds[i].balance <= PaidOffThreshold]
            ELSE sch[k]]

\* the payoff recorded with the loop index, counted from 0
MarkPaidOff_FromZero(ds, act, monthStr, month) ==
    [i \in DOMAIN ds |->
        IF InSeq(i, act) /\ ds[i].balance <= PaidOffThreshold /\ ~ds[i].paidOff
        THEN [ds[i] EXCEPT !.paidOff = TRUE, !.balance = 0,
                           !.payoffMonth = monthStr, !.monthsToPayoff = month]
        ELSE ds[i]]

\* Step 4: mark paid-off debts
MarkPaidOff(ds, act, monthStr, month) ==
    [i \in DOMAIN ds |->
        IF InSeq(i, act) /\ ds[i].balance <= PaidOffThreshold /\ ~ds[i].paidOff
        THEN [ds[i] EXCEPT !.paidOff = TRUE, !.balance = 0,
                           !.payoffMonth = monthStr, !.monthsToPayoff = month + 1]
        ELSE ds[i]]

Summaries(ds) ==
    [i \in DOMAIN ds |->
        [debtId |-> ds[i].id,
         originalBalance |-> ds[i].originalBalance,
         totalInterestPaid |-> RoundCents(ds[i].totalInterest),
         totalPaid |-> RoundCents(ds[i].totalPaid),
         monthsToPayoff |-> ds[i].monthsToPayoff,
         payoffDate |-> ds[i].payoffMonth]]

----------------------------------------------------------------------------
(* computeDebtPayoff: the run as a state machine *)

NoLog == [month |-> NoMonth, active |-> <<>>, afterInterest |-> <<>>,
          afterMinimum |-> <<>>, pooled |-> FALSE, budget |-> 0,
          order |-> <<>>, extra |-> <<>>]

\* if (debtPlans.length === 0) return {...}; otherwise set up the working state
DebtStart ==
    /\ dpc = "start"
    /\ IF Len(debtPlans) = 0
       THEN /\ dpc' = "done"
            /\ debts' = <<>>
       ELSE /\ dpc' = "loop"
            /\ debts' = WorkingDebts(debtPlans)
    /\ UNCHANGED <<debtPlans, maxMonths, schedule, m, monthLog, summaries>>
    /\ UNCHANGED <<stressVars, storeVars, finVars, lonVars, timelineVars, uiVars, savingsVars, callVars, diffVars, bandVars>>

\* the plans of the caller after an iteration: the loop writes to the objects
\* of debts, which debtPlans.map made, never to a plan
CallerDebtPlans(plans, ds) == plans

DebtCurrentDate(ds, month) == addMonths(earliestStart(ds), month)

\* one iteration of for (let m = 0; m < maxMonths; m++) that does not break
DebtMonth ==
    /\ dpc = "loop"
    /\ m < maxMonths
    /\ LET cur == DebtCurrentDate(debts, m)
           monthStr == formatMonth(cur)
           act == activeDebts(debts, cur)
           d1 == ChargeInterest(debts, act)
           d2 == ApplyMinimums(d1, act)
           sch2 == schedule \o MinimumEntries(d1, d2, act, monthStr)
           ex == ExtraPayments(d2, act)
           d3 == ApplyExtras(d2, ex)
           sch3 == UpdateEntries(sch2, d3, ex)
       IN  /\ Len(act) # 0
           /\ debts' = MarkPaidOff(d3, act, monthStr, m)
           /\ schedule' = sch3
           /\ monthLog' = [month |-> monthStr,
                           active |-> act,
                           afterInterest |-> [i \in DOMAIN d1 |-> d1[i].balance],
                           afterMinimum |-> [i \in DOMAIN d2 |-> d2[i].balance],
                           pooled |-> TakesPooledBranch(d2),
                           budget |-> IF TakesPooledBranch(d2) THEN PoolBudget(d2) ELSE 0,
                           order |-> IF TakesPooledBranch(d2) THEN sorted(d2, act) ELSE <<>>,
                           extra |-> ex]
    /\ m' = m + 1
    /\ debtPlans' = CallerDebtPlans(debtPlans, debts')
    /\ UNCHANGED <<maxMonths, dpc, summaries>>
    /\ UNCHANGED <<stressVars, storeVars, finVars, lonVars, timelineVars, uiVars, savingsVars, callVars, diffVars, bandVars>>

\* the loop ends (cap reached, or break on no active debt) and the result is built
DebtReturn ==
    /\ dpc = "loop"
    /\ \/ m >= maxMonths
       \/ Len(activeDebts(debts, DebtCurrentDate(debts, m))) = 0
    /\ dpc' = "done"
    /\ summaries' = Summaries(debts)
    /\ UNCHANGED <<debtPlans, maxMonths, debts, schedule, m, monthLog>>
    /\ UNCHANGED <<stressVars, storeVars, finVars, lonVars, timelineVars, uiVars, savingsVars, callVars, diffVars, bandVars>>

DebtNext == DebtStart \/ DebtMonth \/ DebtReturn

----------------------------------------------------------------------------
(* computeDebtPayoff: properties *)

\* C1: in a run where no debt uses snowball or avalanche, every month's
\* payment on a minimum-payment debt is min(minimumPayment, balance after
\* interest accrual), whatever its extraPayment
C1_MinimumPaymentOnly ==
    ~isPooled(debts) =>
        \A k \in DOMAIN schedule :
            LET d == debts[schedule[k].debtId]
            IN  d.strategy = "minimum-payment"
                    => schedule[k].payment = Min(d.minimum, schedule[k].startingBalance)

\* the strategies of the debts that pool
PoolingStrategies(ds) ==
    {ds[i].strategy : i \in DOMAIN ds} \cap {"snowball", "avalanche"}

\* the debts of the last simulated month that still owed after the minimums
Owing == {i \in DOMAIN debts :
             InSeq(i, monthLog.active) /\ monthLog.afterMinimum[i] > PaidOffThreshold}

\* debt b gets extra only once debt a has been cleared
ServedBefore(a, b) ==
    monthLog.extra[b] > 0 => monthLog.extra[a] = monthLog.afterMinimum[a]

\* C2: in a month that distributes the pool, snowball serves the smallest
\* remaining balance first and avalanche the highest rate first, spilling the
\* remainder to the next, for every order of the input list
C2_StrategyOrder ==
    monthLog.pooled =>
        /\ PoolingStrategies(debts) = {"snowball"} =>
              \A a, b \in Owing :
                  monthLog.afterMinimum[a] < monthLog.afterMinimum[b] => ServedBefore(a, b)
        /\ PoolingStrategies(debts) = {"avalanche"} =>
              \A a, b \in Owing :
                  debts[a].rate > debts[b].rate => ServedBefore(a, b)

\* C3: at most maxMonths months are simulated, and the run stops before the
\* cap only when every debt of the input has been paid off
C3_StopsOnlyWhenAllPaid ==
    dpc = "done" =>
        /\ m <= maxMonths
        /\ m < maxMonths => \A i \in DOMAIN debts : debts[i].paidOff

\* the pool the claim describes for the last simulated month: all configured
\* extras plus the minimums of the debts paid off in earlier months
ClaimedBudget ==
    SumSeq([i \in DOMAIN debts |-> debts[i].extra])
      + SumSeq([i \in DOMAIN debts |->
                   IF debts[i].paidOff /\ debts[i].payoffMonth < monthLog.month
                   THEN debts[i].minimum ELSE 0])

OwingTotal ==
    SumSeq([i \in DOMAIN debts |-> IF i \in Owing THEN monthLog.afterMinimum[i] ELSE 0])

\* C4: in a pooled run (here: one without fixed-payment debts) the extra
\* distributed in a month is the claimed pool, as far as the owing balances
\* take it, also when the configured extras sum to zero
C4_PoolIncludesFreedMinimums ==
    (/\ isPooled(debts)
     /\ monthLog.month # NoMonth
     /\ \A i \in DOMAIN debts : debts[i].strategy # "fixed-payment")
        => SumSeq(monthLog.extra) = Min(ClaimedBudget, OwingTotal)

\* C5: the last schedule entry of a paid-off debt is that of its payoff
\* month, is flagged paid off, and ends on the balance recorded for the debt
\* at its payoff; no entry of the debt is of a later month
C5_FinalEntryIsPayoff ==
    \A i \in DOMAIN debts :
        debts[i].paidOff =>
            LET k == LastEntryOf(schedule, i)
            IN  /\ k # 0
                /\ schedule[k].month = debts[i].payoffMonth
                /\ schedule[k].isPaidOff
                /\ schedule[k].endingBalance = debts[i].balance
                /\ \A j \in DOMAIN schedule :
                      schedule[j].debtId = i => schedule[j].month <= debts[i].payoffMonth

TotalsDoNotDecrease ==
    \A i \in DOMAIN debts \cap DOMAIN debts' :
        /\ debts'[i].totalInterest >= debts[i].totalInterest
        /\ debts'[i].totalPaid >= debts[i].totalPaid

\* C6: for each debt the running totals of interest and of amount paid never
\* decrease from one simulated month to the next (plans with non-negative
\* balance, rate, minimum payment and extra payment)
C6_TotalsMonotone == [][TotalsDoNotDecrease]_vars

\* a run of three months or more in which a debt accrued interest and was
\* paid on, by its minimum and by an extra
C6_Witness ==
    /\ m >= 3
    /\ \E i \in DOMAIN debts :
        /\ debts[i].totalInterest > 0
        /\ debts[i].totalPaid > 0
        /\ InSeq(i, monthLog.active)
        /\ monthLog.extra[i] > 0

----------------------------------------------------------------------------
(* computeStressScores: bounds and inputs *)

MaxPhases == 2

MaxStressMonths == 2

\* loadTimeCost, emotionalIntensity, caregivingHours; the last two lie outside
\* the documented ranges
PhaseProfiles ==
    {<<20, 10, 0>>, <<80, 70, 20>>, <<60, 80, 15>>, <<0, 0, 0>>,
     <<150, 130, 60>>, <<-30, -20, -5>>}

PhaseDates == {<<0, 1>>, <<1, 10>>, <<1, 20>>}

makePhase(start, end, profile) ==
    [startDate |-> start, endDate |-> end, loadTimeCost |-> profile[1],
     emotionalIntensity |-> profile[2], caregivingHours |-> profile[3]]

\* start <= end, as the data model has it
PhaseInputs ==
    {makePhase(t[1], t[2], t[3]) :
        t \in {u \in PhaseDates \X PhaseDates \X PhaseProfiles : ~isBefore(u[2], u[1])}}

PhaseLists == UNION {[1..n -> PhaseInputs] : n \in 0..MaxPhases}

Cashflows == {-6000, -2000, -500, 0, 2000, 7000}

\* per month: no projection entry, or one with a net cashflow
ProjectionChoices == {<<>>} \cup {<<cf>> : cf \in Cashflows}

RECURSIVE ProjectionSeries(_, _)
ProjectionSeries(choice, k) ==
    IF k >= MaxStressMonths THEN <<>>
    ELSE (IF choice[k] = <<>> THEN <<>>
          ELSE <<[month |-> k, netCashflow |-> choice[k][1]]>>)
         \o ProjectionSeries(choice, k + 1)

ProjectionLists ==
    {ProjectionSeries(c, 0) : c \in [0..(MaxStressMonths - 1) -> ProjectionChoices]}

StressStartDates == {<<0, 1>>, <<0, 15>>}

----------------------------------------------------------------------------
(* computeStressScores: one month's score.  A score before rounding is a   *)
(* fraction num/den, kept exact; the weighted sum is exact too, where the  *)
(* code adds IEEE doubles.                                                 *)

WEIGHTS == [freeTime |-> 20, financialSurplus |-> 20, overlapCount |-> 15,
            caregivingLoad |-> 15, sleepProxy |-> 15, emotionalLoad |-> 15]

\* clampScore without its upper limit
clampScore_NoUpper(num, den) == Max(0, num)

\* Math.max(0, Math.min(100, value)) on value = num/den
clampScore(num, den) == Max(0, Min(100 * den, num))

\* Math.round(num/den): to the nearest integer, halves upward
RoundRatio(num, den) == (2 * num + den) \div (2 * den)

\* isWithinInterval(date, {start, end})
isWithinInterval(date, start, end) == ~isBefore(date, start) /\ ~isAfter(date, end)

\* phases.filter(...), as the list of positions, in list order
activePhases(ps, currentDate) ==
    LET Test(i) == isWithinInterval(currentDate, ps[i].startDate, ps[i].endDate)
    IN  SelectSeq(Indices(ps), Test)

\* projectionMap.get(monthStr): the last entry of that month, <<>> if none
ProjectionOf(projs, monthStr) ==
    LET ks == {k \in DOMAIN projs : projs[k].month = monthStr}
    IN  IF ks = {} THEN <<>>
        ELSE <<projs[CHOOSE k \in ks : \A j \in ks : j <= k]>>

\* the floor on a cashflow of zero or more growing with the surplus
FinancialSurplus_Rising(projection, den) ==
    IF projection = <<>> THEN 0
    ELSE LET cf == projection[1].netCashflow
         IN  IF cf < 0
             THEN clampScore(Min(100 * den, ((0 - cf) * den) \div 50), den)
             ELSE clampScore(Max(0, 30 * den + (cf * den) \div 200), den)

\* the financialSurplus sub-score, as a numerator over den
FinancialSurplus(projection, den) ==
    IF projection = <<>> THEN 0
    ELSE LET cf == projection[1].netCashflow
         IN  IF cf < 0
             THEN clampScore(Min(100 * den, ((0 - cf) * den) \div 50), den)
             ELSE clampScore(Max(0, 30 * den - (cf * den) \div 200), den)

\* the emotionalLoad sub-score, as a numerator over den (den a multiple of n)
EmotionalLoad(ps, act, den) ==
    IF Len(act) > 0
    THEN clampScore((SumSeq([k \in DOMAIN act |-> ps[act[k]].emotionalIntensity]) * den)
                        \div Len(act), den)
    ELSE 0

\* Math.min(100, sum of loadTimeCost)
TotalLoad(ps, act) ==
    Min(100, SumSeq([k \in DOMAIN act |-> ps[act[k]].loadTimeCost]))

OverlapCount(act, den) == clampScore(Min(100, Len(act) * 20) * den, den)

CaregivingLoad(ps, act, den) ==
    LET totalCaregiving == SumSeq([k \in DOMAIN act |-> ps[act[k]].caregivingHours])
    IN  clampScore(Min(100 * den, (totalCaregiving * 100 * den) \div 40), den)

\* the sleep proxy with the difference the wrong way round
SleepProxy_Reversed(totalLoad, den) ==
    clampScore((Max(0, 60 - totalLoad) * 5 * den) \div 2, den)

\* Math.max(0, totalLoad - 60) * 2.5
SleepProxy(totalLoad, den) == clampScore((Max(0, totalLoad - 60) * 5 * den) \div 2, den)

ScoreOf(ps, projs, currentDate) ==
    LET monthStr == formatMonth(currentDate)
        act == activePhases(ps, currentDate)
        den == 200 * Max(1, Len(act))
        totalLoad == TotalLoad(ps, act)
        freeTime == clampScore(totalLoad * den, den)
        financialSurplus == FinancialSurplus(ProjectionOf(projs, monthStr), den)
        overlapCount == OverlapCount(act, den)
        caregivingLoad == CaregivingLoad(ps, act, den)
        sleepProxy == SleepProxy(totalLoad, den)
        emotionalLoad == EmotionalLoad(ps, act, den)
        composite ==
            clampScore(freeTime * WEIGHTS.freeTime
                         + financialSurplus * WEIGHTS.financialSurplus
                         + overlapCount * WEIGHTS.overlapCount
                         + caregivingLoad * WEIGHTS.caregivingLoad
                         + sleepProxy * WEIGHTS.sleepProxy
                         + emotionalLoad * WEIGHTS.emotionalLoad, 100 * den)
    IN  [month |-> monthStr,
         composite |-> RoundRatio(composite, 100 * den),
         freeTime |-> RoundRatio(freeTime, den),
         financialSurplus |-> RoundRatio(financialSurplus, den),
         overlapCount |-> RoundRatio(overlapCount, den),
         caregivingLoad |-> RoundRatio(caregivingLoad, den),
         sleepProxy |-> RoundRatio(sleepProxy, den),
         emotionalLoad |-> RoundRatio(emotionalLoad, den)]

----------------------------------------------------------------------------
(* computeStressScores: the run as a state machine *)

\* one iteration of for (let m = 0; m < months; m++)
StressMonth ==
    /\ spc = "loop"
    /\ sm < months
    /\ LET cur == addMonths(startDate, sm)
       IN  /\ activeLog' = Append(activeLog, activePhases(phases, cur))
           /\ scores' = Append(scores, ScoreOf(phases, projections, cur))
    /\ sm' = sm + 1
    /\ UNCHANGED <<phases, projections, startDate, months, spc>>
    /\ UNCHANGED <<debtVars, storeVars, finVars, lonVars, timelineVars, uiVars, savingsVars, callVars, diffVars, bandVars>>

\* return scores
StressReturn ==
    /\ spc = "loop"
    /\ sm >= months
    /\ spc' = "done"
    /\ UNCHANGED <<phases, projections, startDate, months, sm, activeLog, scores>>
    /\ UNCHANGED <<debtVars, storeVars, finVars, lonVars, timelineVars, uiVars, savingsVars, callVars, diffVars, bandVars>>

StressNext == StressMonth \/ StressReturn

----------------------------------------------------------------------------
(* computeStressScores: properties *)

InScoreRange(x) == 0 <= x /\ x <= 100

\* C8: the composite and each of the six sub-scores of every returned month
\* lie within [0,100], whatever the phases and the projection series
C8_ScoresWithinRange ==
    \A k \in DOMAIN scores :
        /\ InScoreRange(scores[k].composite)
        /\ InScoreRange(scores[k].freeTime)
        /\ InScoreRange(scores[k].financialSurplus)
        /\ InScoreRange(scores[k].overlapCount)
        /\ InScoreRange(scores[k].caregivingLoad)
        /\ InScoreRange(scores[k].sleepProxy)
        /\ InScoreRange(scores[k].emotionalLoad)

\* a returned month in which the clamp is what keeps a sub-score in range:
\* the mean emotional intensity of the active phases exceeds 100
C8_Witness ==
    /\ spc = "done"
    /\ \E k \in DOMAIN scores :
        /\ Len(activeLog[k]) > 0
        /\ \A j \in DOMAIN activeLog[k] :
              phases[activeLog[k][j]].emotionalIntensity > 100
        /\ scores[k].emotionalLoad = 100
        /\ scores[k].financialSurplus = 100

\* the phase's [start,end] interval covers some day of calendar month mi
CoversMonth(p, mi) == p.startDate[1] <= mi /\ mi <= p.endDate[1]

\* C9: a phase is active in a scored month exactly when its interval covers
\* part of that calendar month, and the day of month of the start date
\* changes neither the active phases nor the scores
C9_ActiveByCalendarMonth ==
    \A k \in DOMAIN scores :
        LET mi == startDate[1] + (k - 1)
        IN  /\ \A i \in DOMAIN phases :
                  InSeq(i, activeLog[k]) <=> CoversMonth(phases[i], mi)
            /\ \A d \in 1..DaysInMonth(startDate[1]) :
                  LET cur == addMonths(<<startDate[1], d>>, k - 1)
                  IN  /\ activePhases(phases, cur) = activeLog[k]
                      /\ ScoreOf(phases, projections, cur) = scores[k]

\* the phase list without its last phase
Front(ps) == SubSeq(ps, 1, Len(ps) - 1)

\* the last phase of the list is active in the k-th scored month
LastIsActive(k) == Len(phases) > 0 /\ InSeq(Len(phases), activeLog[k])

\* the composite of the k-th scored month without the last phase of the list
CompositeWithoutLast(k) ==
    ScoreOf(Front(phases), projections, addMonths(startDate, k - 1)).composite

HighLoadProfiles == {<<80, 70, 20>>, <<60, 80, 15>>}

LowLoadProfile == <<20, 10, 0>>

ProfileOf(p) == <<p.loadTimeCost, p.emotionalIntensity, p.caregivingHours>>

\* every composite a single active low-load phase can score, over the
\* projection choices of the month
LowLoadComposites ==
    {ScoreOf(<<makePhase(<<0, 1>>, <<0, 1>>, LowLoadProfile)>>,
             IF c = <<>> THEN <<>> ELSE <<[month |-> 0, netCashflow |-> c[1]]>>,
             <<0, 1>>).composite : c \in ProjectionChoices}

\* two overlapping high-load, high-intensity caregiving phases with negative
\* cashflow score strictly higher than a single low-load phase
OverlapBeatsLowLoad ==
    \A k \in DOMAIN scores :
        (/\ Len(activeLog[k]) = 2
         /\ \A j \in 1..2 : ProfileOf(phases[activeLog[k][j]]) \in HighLoadProfiles
         /\ ProjectionOf(projections, scores[k].month) # <<>>
         /\ ProjectionOf(projections, scores[k].month)[1].netCashflow < 0)
        => \A low \in LowLoadComposites : scores[k].composite > low

\* every phase has loadTimeCost and emotionalIntensity in 0..100 and
\* caregivingHours >= 0
WithinDocumentedRanges ==
    \A i \in DOMAIN phases :
        /\ phases[i].loadTimeCost \in 0..100
        /\ phases[i].emotionalIntensity \in 0..100
        /\ phases[i].caregivingHours >= 0

\* C10 as stated, for phases within their documented ranges: a further active
\* phase never lowers the month's composite
C10_MoreActiveNeverLower ==
    /\ \A k \in DOMAIN scores :
          (WithinDocumentedRanges /\ LastIsActive(k))
              => scores[k].composite >= CompositeWithoutLast(k)
    /\ OverlapBeatsLowLoad

\* the added phase takes no load away and does not pull the mean emotional
\* intensity of the active phases down
AddsLoad(k) ==
    LET last == phases[Len(phases)]
        others == activePhases(Front(phases), addMonths(startDate, k - 1))
    IN  /\ last.loadTimeCost >= 0
        /\ last.caregivingHours >= 0
        /\ last.emotionalIntensity * Len(others)
             >= SumSeq([j \in DOMAIN others |-> phases[others[j]].emotionalIntensity])

\* C10, amended: a further active phase with non-negative load and caregiving
\* hours, whose emotional intensity is at least the mean of the phases already
\* active, never lowers the month's composite; and the overlapping high-load
\* case scores strictly higher than the single low-load case
C10_MoreLoadNeverLower ==
    /\ \A k \in DOMAIN scores :
          (LastIsActive(k) /\ AddsLoad(k))
              => scores[k].composite >= CompositeWithoutLast(k)
    /\ OverlapBeatsLowLoad

\* a month in which a second active phase raised the composite, in a run of
\* two overlapping high-load phases with negative cashflow
C10_Witness ==
    /\ spc = "done"
    /\ \E k \in DOMAIN scores :
        /\ Len(activeLog[k]) = 2
        /\ LastIsActive(k) /\ AddsLoad(k)
        /\ scores[k].composite > CompositeWithoutLast(k)
        /\ \A j \in 1..2 : ProfileOf(phases[activeLog[k][j]]) \in HighLoadProfiles
        /\ ProjectionOf(projections, scores[k].month) # <<>>
        /\ ProjectionOf(projections, scores[k].month)[1].netCashflow < 0

----------------------------------------------------------------------------
(* The stores: personActions, scenarioActions, phaseActions, financialActions *)
(* over the database.  uuid() is a counter: every id is issued once.  An     *)
(* operation takes the ids its caller passes, which the code does not check, *)
(* so they range over every id issued so far.  A transaction is one step.    *)

MaxIds == 4

Tables == {"phases", "accounts", "incomeStreams", "expenseRules", "assumptions",
           "debtPlans", "savingsGoals"}

\* the tables personActions.remove deletes from
PersonCascadeTables == {"phases", "accounts", "incomeStreams", "expenseRules",
                        "assumptions"}

\* the tables scenarioActions.remove deletes from
ScenarioCascadeTables == Tables

IssuedIds == 1..(nextId - 1)

\* personActions.create
PersonCreate ==
    /\ nextId <= MaxIds
    /\ persons' = persons \cup {nextId}
    /\ nextId' = nextId + 1
    /\ UNCHANGED <<scenarios, rows>>
    /\ UNCHANGED <<debtVars, stressVars, finVars, lonVars, timelineVars, uiVars, savingsVars, callVars, diffVars, bandVars>>

\* scenarioActions.create
ScenarioCreate ==
    /\ nextId <= MaxIds
    /\ \E personId \in IssuedIds :
          scenarios' = scenarios \cup {[id |-> nextId, personId |-> personId]}
    /\ nextId' = nextId + 1
    /\ UNCHANGED <<persons, rows>>
    /\ UNCHANGED <<debtVars, stressVars, finVars, lonVars, timelineVars, uiVars, savingsVars, callVars, diffVars, bandVars>>

\* phaseActions.create, financialActions.createAccount, createIncome,
\* createExpense, createDebtPlan, createSavingsGoal, createAssumption
EntityCreate ==
    /\ nextId <= MaxIds
    /\ \E t \in Tables, scenarioId \in IssuedIds :
          rows' = [rows EXCEPT ![t] = @ \cup {[id |-> nextId, scenarioId |-> scenarioId]}]
    /\ nextId' = nextId + 1
    /\ UNCHANGED <<persons, scenarios>>
    /\ UNCHANGED <<debtVars, stressVars, finVars, lonVars, timelineVars, uiVars, savingsVars, callVars, diffVars, bandVars>>

\* phaseActions.remove, financialActions.removeAccount, removeIncome, ...
EntityRemove ==
    /\ \E t \in Tables, id \in IssuedIds :
          /\ \E r \in rows[t] : r.id = id
          /\ rows' = [rows EXCEPT ![t] = {r \in @ : r.id # id}]
    /\ UNCHANGED <<persons, scenarios, nextId>>
    /\ UNCHANGED <<debtVars, stressVars, finVars, lonVars, timelineVars, uiVars, savingsVars, callVars, diffVars, bandVars>>

\* db.<table>.where('scenarioId').anyOf(ids).delete() on the given tables
DeleteWhereScenario(tables, ids) ==
    [t \in Tables |->
        IF t \in tables THEN {r \in rows[t] : r.scenarioId \notin ids} ELSE rows[t]]

\* scenarioActions.remove
ScenarioRemove ==
    /\ \E id \in IssuedIds :
          /\ \E sc \in scenarios : sc.id = id
          /\ rows' = DeleteWhereScenario(ScenarioCascadeTables, {id})
          /\ scenarios' = {sc \in scenarios : sc.id # id}
    /\ UNCHANGED <<persons, nextId>>
    /\ UNCHANGED <<debtVars, stressVars, finVars, lonVars, timelineVars, uiVars, savingsVars, callVars, diffVars, bandVars>>

\* personActions.remove
PersonRemove ==
    /\ \E id \in IssuedIds :
          LET scenarioIds == {sc.id : sc \in {x \in scenarios : x.personId = id}}
          IN  /\ id \in persons \/ scenarioIds # {}
              /\ rows' = DeleteWhereScenario(PersonCascadeTables, scenarioIds)
              /\ scenarios' = {sc \in scenarios : sc.personId # id}
              /\ persons' = persons \ {id}
    /\ UNCHANGED nextId
    /\ UNCHANGED <<debtVars, stressVars, finVars, lonVars, timelineVars, uiVars, savingsVars, callVars, diffVars, bandVars>>

StoreNext ==
    \/ PersonCreate
    \/ ScenarioCreate
    \/ EntityCreate
    \/ EntityRemove
    \/ ScenarioRemove
    \/ PersonRemove

----------------------------------------------------------------------------
(* The stores: properties *)

\* the scenarios this step deletes
DeletedScenarioIds == {sc.id : sc \in scenarios} \ {sc.id : sc \in scenarios'}

\* C7: after a scenario is deleted, by scenarioActions.remove or with its
\* person by personActions.remove, no row of any table is keyed by its id
C7_NoRowsOfDeletedScenario ==
    [][\A id \in DeletedScenarioIds :
          \A t \in Tables : \A r \in rows'[t] : r.scenarioId # id]_vars

----------------------------------------------------------------------------
(* computeProjection: bounds and inputs *)

MaxAccounts == 2

MaxStreams == 1          \* income streams, and expense rules, per input

MaxProjectionMonths == 3

AccountTypes == {"savings", "debt"}

AccountBalances == {25000000, 5000000, 1234560, -200500}    \* mills

AccountRates == {0, 6}                                      \* percent a year

\* a debt account stores its balance as a positive magnitude
AccountInputs ==
    {a \in [type : AccountTypes, balance : AccountBalances,
            interestRate : AccountRates] :
        a.type = "debt" => a.balance >= 0}

AccountLists == UNION {[1..n -> AccountInputs] : n \in 0..MaxAccounts}

StreamWindows == {<<(<<0, 1>>), (<<11, 31>>)>>, <<(<<1, 15>>), (<<2, 10>>)>>}

GrowthRates == {0, 100}                                     \* percent a year

IncomeStreamInputs ==
    {[monthlyAmount |-> 800400, annualGrowthRate |-> g,
      startDate |-> w[1], endDate |-> w[2]] :
        g \in GrowthRates, w \in StreamWindows}

ExpenseRuleInputs ==
    {[monthlyAmount |-> 300700, annualInflationRate |-> g,
      startDate |-> w[1], endDate |-> w[2]] :
        g \in GrowthRates, w \in StreamWindows}

IncomeStreamLists == UNION {[1..n -> IncomeStreamInputs] : n \in 0..MaxStreams}

ExpenseRuleLists == UNION {[1..n -> ExpenseRuleInputs] : n \in 0..MaxStreams}

ProjectionStartDates == {<<0, 1>>, <<0, 20>>}

FinancialInputs ==
    [accounts : AccountLists, incomeStreams : IncomeStreamLists,
     expenseRules : ExpenseRuleLists, startDate : ProjectionStartDates,
     months : {MaxProjectionMonths}]

\* the input while computeProjection is not called
NoFinancialInput ==
    [accounts |-> <<>>, incomeStreams |-> <<>>, expenseRules |-> <<>>,
     startDate |-> <<0, 1>>, months |-> 0]

----------------------------------------------------------------------------
(* computeProjection: the steps of the code *)

\* Math.round(x): mills to whole units, halves upward
RoundUnits(x) == (x + 500) \div 1000

\* 2^(k/12) for k = 0..11, in thousandths, rounded down
TwelfthRootsOfTwo ==
    <<1000, 1059, 1122, 1189, 1259, 1334, 1414, 1498, 1587, 1681, 1781, 1887>>

\* Math.pow(1 + rate / 100, m / 12) in thousandths, for the rates 0 and 100
GrowthFactor(rate, month) ==
    IF rate = 0 THEN 1000
    ELSE (2 ^ (month \div 12)) * TwelfthRootsOfTwo[(month % 12) + 1]

\* amount * factor
TimesFactor(amount, factor) == (amount * factor) \div 1000

\* the largest r in lo..hi with r * r <= x
RECURSIVE ISqrtBetween(_, _, _)
ISqrtBetween(x, lo, hi) ==
    IF lo = hi THEN lo
    ELSE LET mid == (lo + hi + 1) \div 2
         IN  IF mid * mid <= x THEN ISqrtBetween(x, mid, hi)
             ELSE ISqrtBetween(x, lo, mid - 1)

\* Math.sqrt(m + 1) * 500, in mills
uncertaintySpread(month) == ISqrtBetween((month + 1) * 100000000, 0, 46340) * 50

\* a.type === 'debt' ? -Math.abs(a.balance) : a.balance
SignedBalance_Unsigned(a) == a.balance

SignedBalance(a) ==
    IF a.type = "debt" THEN 0 - (IF a.balance < 0 THEN 0 - a.balance ELSE a.balance)
    ELSE a.balance

\* let netWorth = accounts.reduce(...)
InitialNetWorth(accts) == SumSeq([k \in 1..Len(accts) |-> SignedBalance(accts[k])])

\* const balances = accounts.map(...); monthlyRate is kept as the yearly percent
InitialBalances(accts) ==
    [k \in 1..Len(accts) |->
        [balance |-> SignedBalance(accts[k]), rate |-> accts[k].interestRate]]

\* !(isBefore(currentDate, start) || isAfter(currentDate, end))
StreamIsActive(st, currentDate) ==
    ~(isBefore(currentDate, st.startDate) \/ isAfter(currentDate, st.endDate))

totalIncome(streams, currentDate, month) ==
    SumSeq([k \in 1..Len(streams) |->
        IF StreamIsActive(streams[k], currentDate)
        THEN TimesFactor(streams[k].monthlyAmount,
                         GrowthFactor(streams[k].annualGrowthRate, month))
        ELSE 0])

totalExpenses(rules, currentDate, month) ==
    SumSeq([k \in 1..Len(rules) |->
        IF StreamIsActive(rules[k], currentDate)
        THEN TimesFactor(rules[k].monthlyAmount,
                         GrowthFactor(rules[k].annualInflationRate, month))
        ELSE 0])

\* bal.balance * bal.monthlyRate, monthlyRate = interestRate / 100 / 12
MonthlyInterest(bal) == (bal.balance * bal.rate) \div 1200

\* the accounts as if the loop wrote its balances into them
CallerAccounts_Shared(accts, bals) ==
    [k \in 1..Len(accts) |-> [accts[k] EXCEPT !.balance = bals[k].balance]]

\* the accounts of the caller after an iteration: bal.balance += interest writes
\* to the objects of balances, which accounts.map made, never to an account
CallerAccounts(accts, bals) == accts

----------------------------------------------------------------------------
(* computeProjection: the run as a state machine *)

\* const start = parseISO(startDate); netWorth and balances from the accounts
ProjectionStart ==
    /\ fpc = "start"
    /\ netWorth' = InitialNetWorth(finInput.accounts)
    /\ balances' = InitialBalances(finInput.accounts)
    /\ fpc' = "loop"
    /\ UNCHANGED <<finInput, fm, flowLog, finProjections>>
    /\ UNCHANGED <<debtVars, stressVars, storeVars, lonVars, timelineVars, uiVars, savingsVars, callVars, diffVars, bandVars>>

\* one iteration of for (let m = 0; m < months; m++)
ProjectionMonth ==
    /\ fpc = "loop"
    /\ fm < finInput.months
    /\ LET currentDate == addMonths(finInput.startDate, fm)
           income == totalIncome(finInput.incomeStreams, currentDate, fm)
           expenses == totalExpenses(finInput.expenseRules, currentDate, fm)
           netCashflow == income - expenses
           interest == [k \in 1..Len(balances) |-> MonthlyInterest(balances[k])]
           interestEarned == SumSeq(interest)
           worth == netWorth + netCashflow + interestEarned
           spread == uncertaintySpread(fm)
       IN  /\ balances' = [k \in 1..Len(balances) |->
                              [balances[k] EXCEPT !.balance = @ + interest[k]]]
           /\ netWorth' = worth
           /\ flowLog' = Append(flowLog, [netCashflow |-> netCashflow,
                                          interestEarned |-> interestEarned])
           /\ finProjections' = Append(finProjections,
                  [month |-> formatMonth(currentDate),
                   totalIncome |-> RoundUnits(income),
                   totalExpenses |-> RoundUnits(expenses),
                   netCashflow |-> RoundUnits(netCashflow),
                   netWorth |-> RoundUnits(worth),
                   netWorthLow |-> RoundUnits(worth - spread),
                   netWorthHigh |-> RoundUnits(worth + spread)])
    /\ fm' = fm + 1
    /\ finInput' = [finInput EXCEPT !.accounts = CallerAccounts(@, balances')]
    /\ UNCHANGED fpc
    /\ UNCHANGED <<debtVars, stressVars, storeVars, lonVars, timelineVars, uiVars, savingsVars, callVars, diffVars, bandVars>>

\* return projections
ProjectionReturn ==
    /\ fpc = "loop"
    /\ fm >= finInput.months
    /\ fpc' = "done"
    /\ UNCHANGED <<finInput, fm, netWorth, balances, flowLog, finProjections>>
    /\ UNCHANGED <<debtVars, stressVars, storeVars, lonVars, timelineVars, uiVars, savingsVars, callVars, diffVars, bandVars>>

ProjectionNext ==
    \/ ProjectionStart
    \/ ProjectionMonth
    \/ ProjectionReturn

----------------------------------------------------------------------------
(* computeProjection: properties *)

\* the sum of the account balances with the debt accounts negated
StartingValue(accts) ==
    SumSeq([k \in 1..Len(accts) |->
        IF accts[k].type = "debt" THEN 0 - accts[k].balance ELSE accts[k].balance])

\* net cashflow plus interest earned of the months 0..i
RECURSIVE FlowsThrough(_, _)
FlowsThrough(log, i) ==
    IF i = 0 THEN 0
    ELSE log[i].netCashflow + log[i].interestEarned + FlowsThrough(log, i - 1)

\* one savings account of 25000 and one debt account of 5000, no interest,
\* no income and no expenses
TestAccounts ==
    <<[type |-> "savings", balance |-> 25000000, interestRate |-> 0],
      [type |-> "debt", balance |-> 5000000, interestRate |-> 0]>>

IsTestInput ==
    /\ finInput.accounts = TestAccounts
    /\ finInput.incomeStreams = <<>>
    /\ finInput.expenseRules = <<>>

\* C11: the net worth reported for month i is the starting value (account
\* balances, debt accounts negated) plus the net cashflow and interest earned
\* of the months 0..i, rounded to whole units; with accounts of 25000 and a
\* debt of 5000 and nothing else, projections[0].netWorth is 20000
C11_NetWorthIdentity ==
    /\ \A i \in 1..Len(finProjections) :
          finProjections[i].netWorth =
              RoundUnits(StartingValue(finInput.accounts) + FlowsThrough(flowLog, i))
    /\ (IsTestInput /\ Len(finProjections) >= 1) => finProjections[1].netWorth = 20000

C11_Witness ==
    /\ fpc = "done"
    /\ Len(finProjections) = MaxProjectionMonths
    /\ \E k \in 1..Len(finInput.accounts) : finInput.accounts[k].type = "debt"
    /\ \E i \in 1..Len(flowLog) :
          flowLog[i].netCashflow # 0 /\ flowLog[i].interestEarned # 0

----------------------------------------------------------------------------
(* longevity-engine: tables and inputs *)

(* A probability is fixed-point with seven decimals: One is 1.0.  The      *)
(* mortality rates of the tables have five decimals and their linear       *)
(* interpolation at a whole age is exact in this unit; a product of two    *)
(* probabilities is rounded down to the seventh decimal.                   *)
One == 10000000

LIFE_TABLE_QX_MALE ==
    <<(<<0, 60000>>), (<<1, 4000>>), (<<5, 1500>>), (<<10, 1200>>),
      (<<15, 6000>>), (<<20, 13000>>), (<<25, 16000>>), (<<30, 17000>>),
      (<<35, 20000>>), (<<40, 25000>>), (<<45, 38000>>), (<<50, 58000>>),
      (<<55, 90000>>), (<<60, 135000>>), (<<65, 190000>>), (<<70, 270000>>),
      (<<75, 420000>>), (<<80, 670000>>), (<<85, 1050000>>), (<<90, 1650000>>),
      (<<95, 2500000>>), (<<100, 3800000>>), (<<105, 5000000>>), (<<110, One>>)>>

LIFE_TABLE_QX_FEMALE ==
    <<(<<0, 50000>>), (<<1, 3500>>), (<<5, 1200>>), (<<10, 1000>>),
      (<<15, 3000>>), (<<20, 5000>>), (<<25, 6000>>), (<<30, 7000>>),
      (<<35, 9000>>), (<<40, 14000>>), (<<45, 22000>>), (<<50, 35000>>),
      (<<55, 55000>>), (<<60, 85000>>), (<<65, 125000>>), (<<70, 190000>>),
      (<<75, 310000>>), (<<80, 520000>>), (<<85, 880000>>), (<<90, 1450000>>),
      (<<95, 2200000>>), (<<100, 3500000>>), (<<105, 4800000>>), (<<110, One>>)>>

\* the last age of the life tables
TableLastAge == 110

\* maxAge: number = 110
DefaultMaxAge == 110

\* the last age of the care-needs curve
CareLastAge == 100

Sexes == {"male", "female"}

\* currentAge may be fractional: it is given in half years
CurrentAges == 0..(2 * TableLastAge)

ConfiguredMaxAges == {DefaultMaxAge, 105, 100}

LongevityInputs ==
    [fn : {"computeSurvivalCurve"}, currentAge : CurrentAges, sex : Sexes,
     maxAge : ConfiguredMaxAges]
    \cup
    [fn : {"lifeExpectancyAtAge", "computePercentiles"}, currentAge : CurrentAges,
     sex : Sexes, maxAge : {DefaultMaxAge}]
    \cup
    [fn : {"computeCareNeedsCurve"}, currentAge : CurrentAges, sex : Sexes,
     maxAge : {CareLastAge}]

\* the input while no function of the engine is called
NoLongevityInput ==
    [fn |-> "none", currentAge |-> 0, sex |-> "male", maxAge |-> 0]

----------------------------------------------------------------------------
(* longevity-engine: the steps of the code *)

\* Math.floor(currentAge), currentAge in half years
FloorAge(currentAge) == currentAge \div 2

\* a * b of two probabilities, rounded down; the factors are split so that no
\* intermediate product leaves the 32-bit range
TimesProbability(a, b) ==
    LET a1 == a \div 1000
        a0 == a % 1000
        b1 == b \div 10000
        b0 == b % 10000
    IN  a1 * b1 + (a1 * b0 + 10 * a0 * b1 + (a0 * b0) \div 1000) \div 10000

interpolateQx_Flat(table, atAge) ==
    IF atAge >= table[Len(table)][1] THEN table[Len(table)][2]
    ELSE LET i == CHOOSE j \in 1..(Len(table) - 1) :
                      (atAge >= table[j][1] /\ atAge < table[j + 1][1])
                      \/ (j = 1 /\ atAge < table[1][1])
         IN  table[i][2]

interpolateQx(table, atAge) ==
    IF atAge <= table[1][1] THEN table[1][2]
    ELSE IF atAge >= table[Len(table)][1] THEN table[Len(table)][2]
    ELSE LET i == CHOOSE j \in 1..(Len(table) - 1) :
                      atAge >= table[j][1] /\ atAge < table[j + 1][1]
             a0 == table[i][1]
             q0 == table[i][2]
             a1 == table[i + 1][1]
             q1 == table[i + 1][2]
         IN  q0 + ((atAge - a0) * (q1 - q0)) \div (a1 - a0)

\* sex === 'male' ? LIFE_TABLE_QX_MALE : LIFE_TABLE_QX_FEMALE
TableOf_Swapped(sex) == IF sex = "male" THEN LIFE_TABLE_QX_FEMALE ELSE LIFE_TABLE_QX_MALE

TableOf(sex) == IF sex = "male" THEN LIFE_TABLE_QX_MALE ELSE LIFE_TABLE_QX_FEMALE

\* survival *= (1 - qx)
NextSurvival(survival_, atAge, sex) ==
    TimesProbability(survival_, One - interpolateQx(TableOf(sex), atAge))

\* the points computeSurvivalCurve pushes from atAge on, survival_ being the
\* probability at atAge
RECURSIVE CurveFrom(_, _, _, _)
CurveFrom(atAge, survival_, sex, maxAge) ==
    IF atAge > maxAge THEN <<>>
    ELSE <<[age |-> atAge, probability |-> survival_]>>
         \o CurveFrom(atAge + 1, NextSurvival(survival_, atAge, sex), sex, maxAge)

computeSurvivalCurve(currentAge, sex, maxAge) ==
    CurveFrom(FloorAge(currentAge), One, sex, maxAge)

\* sum of curve[i - 1].probability + curve[i].probability for i in 1..length-1
RECURSIVE TrapezoidSum(_, _)
TrapezoidSum(curve, i) ==
    IF i < 2 THEN 0
    ELSE curve[i - 1].probability + curve[i].probability + TrapezoidSum(curve, i - 1)

\* Math.round(sum * 10) / 10 of the integrated curve, in tenths of a year
LifeExpectancyOfCurve(curve) ==
    (TrapezoidSum(curve, Len(curve)) + (One \div 10)) \div (2 * (One \div 10))

lifeExpectancyAtAge(currentAge, sex) ==
    LifeExpectancyOfCurve(computeSurvivalCurve(currentAge, sex, DefaultMaxAge))

\* findAge(targetSurvival), in tenths of a year
findAge(curve, targetSurvival) ==
    LET hits == {i \in 2..Len(curve) : curve[i].probability <= targetSurvival}
    IN  IF hits = {} THEN curve[Len(curve)].age * 10
        ELSE LET i == CHOOSE j \in hits : \A k \in hits : j <= k
                 prev == curve[i - 1]
                 curr == curve[i]
                 num == prev.probability - targetSurvival
                 den == prev.probability - curr.probability
             IN  prev.age * 10
                 + ((20 * num * (curr.age - prev.age)) + den) \div (2 * den)

PercentilesOfCurve(curve) ==
    [p25 |-> findAge(curve, (One \div 4) * 3),
     p50 |-> findAge(curve, One \div 2),
     p75 |-> findAge(curve, One \div 4),
     p90 |-> findAge(curve, One \div 10)]

\* the four probabilities of one age before normalising, in units of 0.00001;
\* genderFactor is 115 (1.15) or 100 (1.0) hundredths
CareShares(atAge, sex) ==
    LET genderFactor == IF sex = "female" THEN 115 ELSE 100
    IN  IF atAge < 60 THEN
            [independent |-> 95000, light |-> 3000, moderate |-> 1500, full |-> 500]
        ELSE IF atAge < 70 THEN
            LET t == atAge - 60
            IN  [independent |-> 95000 - (t * 12000 * genderFactor) \div 1000,
                 light |-> 3000 + (t * 6000 * genderFactor) \div 1000,
                 moderate |-> 1500 + (t * 4000 * genderFactor) \div 1000,
                 full |-> 500 + (t * 2000 * genderFactor) \div 1000]
        ELSE IF atAge < 80 THEN
            LET t == atAge - 70
            IN  [independent |-> ((83000 - t * 2500) * (200 - genderFactor)) \div 100,
                 light |-> 9000 + (t * 10000 * genderFactor) \div 1000,
                 moderate |-> 5500 + (t * 10000 * genderFactor) \div 1000,
                 full |-> 2500 + (t * 5000 * genderFactor) \div 1000]
        ELSE IF atAge < 90 THEN
            LET t == atAge - 80
            IN  [independent |-> ((58000 - t * 3000) * (200 - genderFactor)) \div 100,
                 light |-> 19000 + t * 500,
                 moderate |-> 15500 + (t * 15000 * genderFactor) \div 1000,
                 full |-> 7500 + (t * 10000 * genderFactor) \div 1000]
        ELSE
            LET t == Min(atAge - 90, 10)
            IN  [independent |-> Max(28000 - t * 2000, 5000),
                 light |-> 24000 - t * 500,
                 moderate |-> 30500 + t * 500,
                 full |-> 17500 + t * 2000]

\* Math.round((x / total) * 1000) / 10, in tenths of a percent
CarePercent(x, total) == (2000 * x + total) \div (2 * total)

CarePoint(atAge, sex) ==
    LET s == CareShares(atAge, sex)
        total == s.independent + s.light + s.moderate + s.full
    IN  [age |-> atAge,
         independentLiving |-> CarePercent(s.independent, total),
         lightAssistance |-> CarePercent(s.light, total),
         moderateAssistance |-> CarePercent(s.moderate, total),
         fullCare |-> CarePercent(s.full, total)]

----------------------------------------------------------------------------
(* longevity-engine: the runs as a state machine *)

IsSurvivalRun == lonInput.fn \in {"computeSurvivalCurve", "lifeExpectancyAtAge",
                                  "computePercentiles"}

\* one iteration of for (let age = Math.floor(currentAge); age <= maxAge; age++)
SurvivalStep ==
    /\ lpc = "loop"
    /\ IsSurvivalRun
    /\ age <= lonInput.maxAge
    /\ points' = Append(points, [age |-> age, probability |-> survival])
    /\ survival' = NextSurvival(survival, age, lonInput.sex)
    /\ age' = age + 1
    /\ UNCHANGED <<lonInput, lpc, lonResult>>
    /\ UNCHANGED <<debtVars, stressVars, storeVars, finVars, timelineVars, uiVars, savingsVars, callVars, diffVars, bandVars>>

\* return points, and what lifeExpectancyAtAge and computePercentiles make of them
SurvivalReturn ==
    /\ lpc = "loop"
    /\ IsSurvivalRun
    /\ age > lonInput.maxAge
    /\ lonResult' = CASE lonInput.fn = "computeSurvivalCurve" -> points
                      [] lonInput.fn = "lifeExpectancyAtAge" -> LifeExpectancyOfCurve(points)
                      [] lonInput.fn = "computePercentiles" -> PercentilesOfCurve(points)
    /\ lpc' = "done"
    /\ UNCHANGED <<lonInput, age, survival, points>>
    /\ UNCHANGED <<debtVars, stressVars, storeVars, finVars, timelineVars, uiVars, savingsVars, callVars, diffVars, bandVars>>

\* one iteration of for (let age = Math.floor(startAge); age <= 100; age++)
CareStep ==
    /\ lpc = "loop"
    /\ lonInput.fn = "computeCareNeedsCurve"
    /\ age <= CareLastAge
    /\ points' = Append(points, CarePoint(age, lonInput.sex))
    /\ age' = age + 1
    /\ UNCHANGED <<lonInput, lpc, survival, lonResult>>
    /\ UNCHANGED <<debtVars, stressVars, storeVars, finVars, timelineVars, uiVars, savingsVars, callVars, diffVars, bandVars>>

CareReturn ==
    /\ lpc = "loop"
    /\ lonInput.fn = "computeCareNeedsCurve"
    /\ age > CareLastAge
    /\ lonResult' = points
    /\ lpc' = "done"
    /\ UNCHANGED <<lonInput, age, survival, points>>
    /\ UNCHANGED <<debtVars, stressVars, storeVars, finVars, timelineVars, uiVars, savingsVars, callVars, diffVars, bandVars>>

LongevityNext ==
    \/ SurvivalStep
    \/ SurvivalReturn
    \/ CareStep
    \/ CareReturn

----------------------------------------------------------------------------
(* longevity-engine: properties *)

SurvivalCurveReturned ==
    /\ lpc = "done"
    /\ lonInput.fn = "computeSurvivalCurve"
    /\ FloorAge(lonInput.currentAge) <= lonInput.maxAge

StartsAtOne(curve) == curve[1].probability = One

NonIncreasing(curve) ==
    \A i \in 2..Len(curve) : curve[i].probability <= curve[i - 1].probability

EndsBelowOnePercent(curve) == curve[Len(curve)].probability < One \div 100

\* C12: for every starting age up to the max age, either sex and every
\* configured max age, the survival curve is exactly 1.0 at its first point,
\* non-increasing after it, and below 0.01 at its last point
C12_SurvivalCurveShape ==
    SurvivalCurveReturned =>
        /\ StartsAtOne(lonResult)
        /\ NonIncreasing(lonResult)
        /\ EndsBelowOnePercent(lonResult)

\* C12 as amended: the curve is 1.0 at its first point and non-increasing for
\* every starting age up to the max age and every configured max age; its last
\* point is below 0.01 for the default max age and a starting age below 108
C12_SurvivalCurveShapeBelow108 ==
    SurvivalCurveReturned =>
        /\ StartsAtOne(lonResult)
        /\ NonIncreasing(lonResult)
        /\ (lonInput.maxAge = DefaultMaxAge /\ FloorAge(lonInput.currentAge) < 108)
               => EndsBelowOnePercent(lonResult)

C12_Witness ==
    /\ SurvivalCurveReturned
    /\ lonInput.maxAge = DefaultMaxAge
    /\ lonInput.currentAge = 2 * 107 + 1
    /\ Len(lonResult) = 4
    /\ lonResult[2].probability < One
    /\ EndsBelowOnePercent(lonResult)

\* C13: for every current age from 0 to 110 and each sex the percentile ages
\* are strictly ordered, p25 < p50 < p75 < p90
C13_PercentilesOrdered ==
    (lpc = "done" /\ lonInput.fn = "computePercentiles") =>
        /\ lonResult.p25 < lonResult.p50
        /\ lonResult.p50 < lonResult.p75
        /\ lonResult.p75 < lonResult.p90

\* the life expectancy of the run's age for the given sex: the run's result
\* for its own sex, the function's value for the other
LifeExpectancyFor(sex) ==
    IF lonInput.sex = sex THEN lonResult
    ELSE lifeExpectancyAtAge(lonInput.currentAge, sex)

LifeExpectancyReturned == lpc = "done" /\ lonInput.fn = "lifeExpectancyAtAge"

\* C14: for every age from 0 to 110 the remaining life expectancy for
\* 'female' is strictly greater than for 'male'
C14_FemaleOutlivesMale ==
    LifeExpectancyReturned => LifeExpectancyFor("female") > LifeExpectancyFor("male")

\* C14 as amended: strictly greater for every age below 103, and never
\* smaller for any age up to 110
C14_FemaleOutlivesMaleBelow103 ==
    LifeExpectancyReturned =>
        /\ LifeExpectancyFor("female") >= LifeExpectancyFor("male")
        /\ FloorAge(lonInput.currentAge) < 103
               => LifeExpectancyFor("female") > LifeExpectancyFor("male")

C14_Witness ==
    /\ LifeExpectancyReturned
    /\ lonInput.sex = "female"
    /\ FloorAge(lonInput.currentAge) = 102
    /\ Len(points) = 9
    /\ lonResult = LifeExpectancyFor("male") + 1

\* C15: in the care-needs curve of either sex, from one age to the next
\* between 60 and 100 the full-care probability does not decrease and the
\* independent-living probability does not increase
C15_CareNeedsMonotone ==
    lonInput.fn = "computeCareNeedsCurve" =>
        \A i \in 2..Len(points) :
            points[i - 1].age >= 60 =>
                /\ points[i].fullCare >= points[i - 1].fullCare
                /\ points[i].independentLiving <= points[i - 1].independentLiving

----------------------------------------------------------------------------
(* timeline-engine: bounds and inputs *)

(* A density (pixels per day) and a pixel position computed from one are    *)
(* fixed-point with four decimals: 10000 is 1.0, so the range [0.01, 100]   *)
(* is [100, 1000000].  A Date is its day number, counted from the first     *)
(* day of the base year; the conversions assume days of 86400000 ms.        *)
PixelUnit == 10000

MaxLayoutPhases == 3

CATEGORY_ROW_ORDER ==
    <<"career", "education", "family", "relationship", "caregiving", "health",
      "biologic-rhythms", "housing", "financial", "personal">>

\* the PhaseCategory values
PhaseCategories == {CATEGORY_ROW_ORDER[k] : k \in 1..Len(CATEGORY_ROW_ORDER)}

TimelineWindows == {<<(<<5, 1>>), (<<17, 1>>)>>, <<(<<2, 1>>), (<<2, 3>>)>>}

TimelinePhaseInputs ==
    {[category |-> c, startDate |-> w[1], endDate |-> w[2]] :
        c \in PhaseCategories, w \in TimelineWindows}

TimelinePhaseLists ==
    UNION {[1..n -> TimelinePhaseInputs] : n \in 0..MaxLayoutPhases}

OriginDates == {<<0, 1>>, <<5, 15>>}

\* 0.01, 0.05, 0.3, 1, 2, 10 and 100 pixels per day
Densities == {100, 500, 3000, 10000, 20000, 100000, 1000000}

LayoutDensities == {500, 10000}

PixelOffsets == {-364, -7, 0, 1, 3, 10, 364}

TimelineInputs ==
    [fn : {"roundTrip"}, px : PixelOffsets, origin : OriginDates,
     pixelsPerDay : Densities, phases : {<<>>}]
    \cup
    [fn : {"getPhaseLayout"}, px : {0}, origin : OriginDates,
     pixelsPerDay : LayoutDensities, phases : TimelinePhaseLists]

\* the input while no function of the engine is called
NoTimelineInput ==
    [fn |-> "none", px |-> 0, origin |-> <<0, 1>>, pixelsPerDay |-> PixelUnit,
     phases |-> <<>>]

----------------------------------------------------------------------------
(* timeline-engine: the steps of the code *)

RECURSIVE DaysBeforeMonth(_)
DaysBeforeMonth(mi) ==
    IF mi = 0 THEN 0 ELSE DaysInMonth(mi - 1) + DaysBeforeMonth(mi - 1)

\* parseISO / new Date of a calendar date: its day number
DayNumber(date) == DaysBeforeMonth(date[1]) + date[2] - 1

\* differenceInDays(a, b) of two day numbers
differenceInDays(a, b) == a - b

\* the days counted from day 0 instead of from the origin
dateToPixel_FromDayZero(date, origin, pixelsPerDay) == date * pixelsPerDay

\* differenceInDays(date, origin) * pixelsPerDay, in 0.0001 pixel
dateToPixel(date, origin, pixelsPerDay) ==
    differenceInDays(date, origin) * pixelsPerDay

\* Math.round(px / pixelsPerDay) days after the origin; px in whole pixels
pixelToDate(px, origin, pixelsPerDay) ==
    origin + (2 * px * PixelUnit + pixelsPerDay) \div (2 * pixelsPerDay)

clampPixelsPerDay(ppd) == Max(PixelUnit \div 100, Min(100 * PixelUnit, ppd))

\* the loop over CATEGORY_ROW_ORDER from position k on: categoryRows as a
\* function from the categories set so far to their rows
RECURSIVE CategoryRowsFrom(_, _, _, _)
CategoryRowsFrom(phs, k, nextRow, rowsSoFar) ==
    IF k > Len(CATEGORY_ROW_ORDER) THEN rowsSoFar
    ELSE IF \E i \in 1..Len(phs) : phs[i].category = CATEGORY_ROW_ORDER[k]
         THEN CategoryRowsFrom(phs, k + 1, nextRow + 1,
                               rowsSoFar @@ (CATEGORY_ROW_ORDER[k] :> nextRow))
         ELSE CategoryRowsFrom(phs, k + 1, nextRow, rowsSoFar)

\* rows handed out in the order the categories appear in the phase list
categoryRows_ByAppearance(phs) ==
    [c \in {phs[i].category : i \in 1..Len(phs)} |->
        LET first == CHOOSE i \in 1..Len(phs) :
                        /\ phs[i].category = c
                        /\ \A j \in 1..(i - 1) : phs[j].category # c
        IN  Cardinality({phs[j].category : j \in 1..(first - 1)})]

categoryRows(phs) == CategoryRowsFrom(phs, 1, 0, <<>>)

\* phases.map(...)
PhaseLayouts(phs, rowsOf, origin, pixelsPerDay) ==
    [i \in 1..Len(phs) |->
        LET start == DayNumber(phs[i].startDate)
            end == DayNumber(phs[i].endDate)
        IN  [phase |-> phs[i],
             x |-> dateToPixel(start, origin, pixelsPerDay),
             width |-> Max(differenceInDays(end, start) * pixelsPerDay, 4 * PixelUnit),
             row |-> IF phs[i].category \in DOMAIN rowsOf
                     THEN rowsOf[phs[i].category] ELSE 0]]

----------------------------------------------------------------------------
(* timeline-engine: the calls as a state machine *)

\* const date = pixelToDate(px, origin, ppd)
PixelToDate ==
    /\ tpc = "start"
    /\ tlInput.fn = "roundTrip"
    /\ tlResult' = [date |-> pixelToDate(tlInput.px, DayNumber(tlInput.origin),
                                         tlInput.pixelsPerDay)]
    /\ tpc' = "date"
    /\ UNCHANGED tlInput
    /\ UNCHANGED <<debtVars, stressVars, storeVars, finVars, lonVars, uiVars, savingsVars, callVars, diffVars, bandVars>>

\* const backPx = dateToPixel(date, origin, ppd)
DateToPixel ==
    /\ tpc = "date"
    /\ tlResult' = [date |-> tlResult.date,
                    backPx |-> dateToPixel(tlResult.date, DayNumber(tlInput.origin),
                                           tlInput.pixelsPerDay)]
    /\ tpc' = "done"
    /\ UNCHANGED tlInput
    /\ UNCHANGED <<debtVars, stressVars, storeVars, finVars, lonVars, uiVars, savingsVars, callVars, diffVars, bandVars>>

\* getPhaseLayout: the rows of the categories
AssignCategoryRows ==
    /\ tpc = "start"
    /\ tlInput.fn = "getPhaseLayout"
    /\ tlResult' = [categoryRows |-> categoryRows(tlInput.phases)]
    /\ tpc' = "rows"
    /\ UNCHANGED tlInput
    /\ UNCHANGED <<debtVars, stressVars, storeVars, finVars, lonVars, uiVars, savingsVars, callVars, diffVars, bandVars>>

\* getPhaseLayout: return phases.map(...)
MapPhases ==
    /\ tpc = "rows"
    /\ tlResult' = [categoryRows |-> tlResult.categoryRows,
                    layouts |-> PhaseLayouts(tlInput.phases, tlResult.categoryRows,
                                             DayNumber(tlInput.origin),
                                             tlInput.pixelsPerDay)]
    /\ tpc' = "done"
    /\ UNCHANGED tlInput
    /\ UNCHANGED <<debtVars, stressVars, storeVars, finVars, lonVars, uiVars, savingsVars, callVars, diffVars, bandVars>>

TimelineNext ==
    \/ PixelToDate
    \/ DateToPixel
    \/ AssignCategoryRows
    \/ MapPhases

----------------------------------------------------------------------------
(* timeline-engine: properties *)

RoundTripReturned == tpc = "done" /\ tlInput.fn = "roundTrip"

IsWholeDay(px, pixelsPerDay) ==
    /\ pixelsPerDay % PixelUnit = 0
    /\ px % (pixelsPerDay \div PixelUnit) = 0

LayoutReturned == tpc = "done" /\ tlInput.fn = "getPhaseLayout"

\* the position of a category in the canonical order
CategoryPosition(c) == CHOOSE k \in 1..Len(CATEGORY_ROW_ORDER) : CATEGORY_ROW_ORDER[k] = c

\* C20: the rows used are 0..k-1 for the k categories present, handed out in
\* the canonical category order, and two phases share a row exactly when they
\* share a category; this fixes every row from the set of categories present,
\* whatever the number and the order of the phases
C20_OneLanePerCategory ==
    LayoutReturned =>
        LET phs == tlInput.phases
            rowOf == [i \in 1..Len(phs) |-> tlResult.layouts[i].row]
            present == {phs[i].category : i \in 1..Len(phs)}
        IN  /\ {rowOf[i] : i \in 1..Len(phs)} = 0..(Cardinality(present) - 1)
            /\ \A i, j \in 1..Len(phs) :
                  /\ (rowOf[i] = rowOf[j]) <=> (phs[i].category = phs[j].category)
                  /\ CategoryPosition(phs[i].category) < CategoryPosition(phs[j].category)
                        => rowOf[i] < rowOf[j]

C20_Witness ==
    /\ LayoutReturned
    /\ Len(tlInput.phases) = 3
    /\ tlInput.phases[1].category = "housing"
    /\ tlInput.phases[2].category = "career"
    /\ tlInput.phases[3].category = "housing"
    /\ tlResult.layouts[1].row = 1
    /\ tlResult.layouts[2].row = 0
    /\ tlResult.layouts[3].row = 1

----------------------------------------------------------------------------
(* uiStore and the timeline gestures: bounds and inputs *)

MaxUiEvents == 3

ZoomLevels == {"decade", "year", "month", "week"}

\* 0.05, 1, 10 and 50 pixels per day
ZOOM_PRESETS ==
    [level \in ZoomLevels |->
        CASE level = "decade" -> PixelUnit \div 20
          [] level = "year" -> PixelUnit
          [] level = "month" -> 10 * PixelUnit
          [] level = "week" -> 50 * PixelUnit]

\* arguments of setPixelsPerDay: 0.005, 0.01, 5, 100 and 200 pixels per day
PixelsPerDayArguments == {50, 100, 50000, 1000000, 2000000}

\* arguments of setViewport: a part of the viewport
PartialViewports ==
    {[f \in {"offsetX"} |-> v] : v \in {-200, 0, 200}}
    \cup {[f \in {"offsetY"} |-> 40]}
    \cup {[f \in {"pixelsPerDay"} |-> v] : v \in {50, 50000, 2000000}}

DragDeltas == {-50, 50}

WheelDeltas == {-120, 120}

----------------------------------------------------------------------------
(* uiStore and the timeline gestures: the handlers *)

\* setZoomLevel: (level) => set(...)
setZoomLevel(level) ==
    /\ zoomLevel' = level
    /\ viewport' = [viewport EXCEPT !.pixelsPerDay = ZOOM_PRESETS[level]]

\* setViewport: (partial) => set((state) => ({ viewport: { ...state.viewport, ...partial } }))
setViewport(partial) ==
    /\ viewport' = [f \in DOMAIN viewport |->
                       IF f \in DOMAIN partial THEN partial[f] ELSE viewport[f]]
    /\ UNCHANGED zoomLevel

\* setPixelsPerDay: (ppd) => set(...)
setPixelsPerDay(ppd) ==
    /\ viewport' = [viewport EXCEPT !.pixelsPerDay = ppd]
    /\ UNCHANGED zoomLevel

\* viewport.pixelsPerDay * factor, factor 0.9 or 1.1
TimesZoomFactor(ppd, dy) == IF dy > 0 THEN (ppd * 9) \div 10 ELSE (ppd * 11) \div 10

CountsAsEvent ==
    /\ uiEvents < MaxUiEvents
    /\ uiEvents' = uiEvents + 1
    /\ UNCHANGED <<debtVars, stressVars, storeVars, finVars, lonVars, timelineVars, savingsVars, callVars, diffVars, bandVars>>

\* a zoom button
SetZoomLevel == CountsAsEvent /\ \E level \in ZoomLevels : setZoomLevel(level)

SetViewport == CountsAsEvent /\ \E partial \in PartialViewports : setViewport(partial)

SetPixelsPerDay == CountsAsEvent /\ \E ppd \in PixelsPerDayArguments : setPixelsPerDay(ppd)

\* onDrag: ({ delta: [dx] }) => setViewport({ offsetX: viewport.offsetX + dx })
OnDrag ==
    /\ CountsAsEvent
    /\ \E dx \in DragDeltas : setViewport([f \in {"offsetX"} |-> viewport.offsetX + dx])

\* onWheel: with ctrl or meta a zoom step, else a pan
OnWheel ==
    /\ CountsAsEvent
    /\ \E dy \in WheelDeltas, ctrlKey \in BOOLEAN :
          IF ctrlKey
          THEN setPixelsPerDay(clampPixelsPerDay(TimesZoomFactor(viewport.pixelsPerDay, dy)))
          ELSE setViewport([f \in {"offsetX"} |-> viewport.offsetX - dy])

UiNext ==
    \/ SetZoomLevel
    \/ SetViewport
    \/ SetPixelsPerDay
    \/ OnDrag
    \/ OnWheel

----------------------------------------------------------------------------
(* uiStore and the timeline gestures: properties *)

\* C17: the zoom density of the viewport is within [0.01, 100] in every
\* reachable state: at the start and after any sequence of wheel-zoom steps,
\* setZoomLevel, setPixelsPerDay and setViewport calls
C17_ZoomWithinRange ==
    /\ viewport.pixelsPerDay >= PixelUnit \div 100
    /\ viewport.pixelsPerDay <= 100 * PixelUnit

----------------------------------------------------------------------------
(* computeSavingsProjection: bounds and inputs *)

MaxGoals == 2

GoalBalances == {0, 400000, -300000}             \* currentBalance, mills

GoalTargets == {0, 1000000}                      \* targetAmount, mills

GoalContributions == {100000}                    \* monthlyContribution, mills

GoalReturnRates == {0, 12}                       \* annualReturnRate, percent

GoalStartDates == {<<0, 31>>, <<0, 15>>}

GoalTargetDates == {<<2, 10>>, <<2, 31>>, <<0, 1>>}

SavingsGoalInputs ==
    [currentBalance : GoalBalances, targetAmount : GoalTargets,
     monthlyContribution : GoalContributions, annualReturnRate : GoalReturnRates,
     startDate : GoalStartDates, targetDate : GoalTargetDates]

\* goals[k].id is k
SavingsGoalLists == UNION {[1..n -> SavingsGoalInputs] : n \in 0..MaxGoals}

----------------------------------------------------------------------------
(* computeSavingsProjection: the steps of the code *)

\* balance * monthlyRate, monthlyRate = annualReturnRate / 100 / 12
GoalGrowth(bal, annualReturnRate) == (bal * annualReturnRate) \div 1200

\* Math.round(percentComplete * 10) / 10 in tenths of a percent, percentComplete
\* being targetAmount > 0 ? Math.min(100, (balance / targetAmount) * 100) : 100
percentComplete(bal, targetAmount) ==
    IF targetAmount > 0
    THEN IF bal >= targetAmount THEN 1000
         ELSE (2000 * bal + targetAmount) \div (2 * targetAmount)
    ELSE 1000

----------------------------------------------------------------------------
(* computeSavingsProjection: the run as a state machine *)

\* for (const goal of goals): start, target, balance, d = start (cursor)
GoalStart ==
    /\ gpc = "goal"
    /\ gi <= Len(goals)
    /\ balance' = goals[gi].currentBalance
    /\ cursor' = goals[gi].startDate
    /\ gpc' = "month"
    /\ UNCHANGED <<goals, gi, result>>
    /\ UNCHANGED <<debtVars, stressVars, storeVars, finVars, lonVars, timelineVars, uiVars, callVars, diffVars, bandVars>>

\* one iteration of while (!isAfter(d, target))
GoalMonth ==
    /\ gpc = "month"
    /\ ~isAfter(cursor, goals[gi].targetDate)
    /\ LET goal == goals[gi]
           growth == GoalGrowth(balance, goal.annualReturnRate)
           grown == balance + growth + goal.monthlyContribution
       IN  /\ balance' = grown
           /\ result' = Append(result,
                  [month |-> formatMonth(cursor),
                   goalId |-> gi,
                   balance |-> RoundUnits(grown),
                   contribution |-> goal.monthlyContribution,
                   growth |-> RoundUnits(growth),
                   percentComplete |-> percentComplete(grown, goal.targetAmount)])
    /\ cursor' = addMonths(cursor, 1)
    /\ UNCHANGED <<goals, gi, gpc>>
    /\ UNCHANGED <<debtVars, stressVars, storeVars, finVars, lonVars, timelineVars, uiVars, callVars, diffVars, bandVars>>

\* the while loop ends: on to the next goal
GoalEnd ==
    /\ gpc = "month"
    /\ isAfter(cursor, goals[gi].targetDate)
    /\ gi' = gi + 1
    /\ gpc' = "goal"
    /\ UNCHANGED <<goals, cursor, balance, result>>
    /\ UNCHANGED <<debtVars, stressVars, storeVars, finVars, lonVars, timelineVars, uiVars, callVars, diffVars, bandVars>>

\* return result
SavingsReturn ==
    /\ gpc = "goal"
    /\ gi > Len(goals)
    /\ gpc' = "done"
    /\ UNCHANGED <<goals, gi, cursor, balance, result>>
    /\ UNCHANGED <<debtVars, stressVars, storeVars, finVars, lonVars, timelineVars, uiVars, callVars, diffVars, bandVars>>

SavingsNext ==
    \/ GoalStart
    \/ GoalMonth
    \/ GoalEnd
    \/ SavingsReturn

----------------------------------------------------------------------------
(* computeSavingsProjection: properties *)

\* C18: for every savings goal and every projected month percentComplete is
\* within [0, 100]
C18_PercentWithinRange ==
    \A i \in 1..Len(result) :
        result[i].percentComplete >= 0 /\ result[i].percentComplete <= 1000

\* the months of the entries of goal k, in the order of the series
RECURSIVE MonthsOfGoal(_, _)
MonthsOfGoal(series, k) ==
    IF series = <<>> THEN <<>>
    ELSE (IF Head(series).goalId = k THEN <<Head(series).month>> ELSE <<>>)
         \o MonthsOfGoal(Tail(series), k)

\* every calendar month from the month of the start date through the month of
\* the target date; none when the target date precedes the start date
ClaimedMonths(goal) ==
    IF isBefore(goal.targetDate, goal.startDate) THEN <<>>
    ELSE [j \in 1..(formatMonth(goal.targetDate) - formatMonth(goal.startDate) + 1) |->
             formatMonth(goal.startDate) + j - 1]

\* C19: the series of a goal holds exactly one entry for every calendar month
\* from the month of its start date through the month of its target date, in
\* chronological order, whatever the days of the month of the two dates; a
\* goal whose target date precedes its start date yields no entries
C19_OneEntryPerMonth ==
    gpc = "done" =>
        \A k \in 1..Len(goals) : MonthsOfGoal(result, k) = ClaimedMonths(goals[k])

----------------------------------------------------------------------------
(* The stores: the calls that await the database more than once.           *)
(* phaseActions.applyTemplate awaits the count of the scenario's phases and *)
(* then the bulk insert; scenarioActions.duplicate awaits the read of the   *)
(* original and then its transaction.  Other calls run between the two      *)
(* awaits of a call, so each await is a step and the calls in flight are     *)
(* kept in the bag calls.  A template is modelled by the number of its       *)
(* phases.  A stored phase carries its order.                               *)

MaxCalls == 2

TemplateSizes == {1, 2}          \* template.phases.length

PhaseOrders == {0, 1}            \* the order a caller of phaseActions.create passes

\* what db.scenarios.get gives for an id that no stored scenario has
Undefined == [id |-> 0, personId |-> 0]

\* the error of scenarioActions.duplicate: `Scenario ${id} not found`
NotFound == "Scenario not found"

NoError == {}

\* the order in which scenarioActions.duplicate copies the tables
TableOrder == <<"phases", "accounts", "incomeStreams", "expenseRules", "assumptions",
                "debtPlans", "savingsGoals">>

\* db.scenarios.get(id)
ScenarioGet(id) ==
    IF \E sc \in scenarios : sc.id = id
    THEN CHOOSE sc \in scenarios : sc.id = id
    ELSE Undefined

\* db.<table>.where('scenarioId').equals(id)
WhereScenario(t, id) == {r \in rows[t] : r.scenarioId = id}

\* the call is let through whatever the read gave
DuplicateThrows_Never(original) == FALSE

\* if (!original) throw new Error(`Scenario ${id} not found`)
DuplicateThrows(original) == original = Undefined

\* phaseActions.create
PhaseCreate ==
    /\ nextId <= MaxIds
    /\ \E scenarioId \in IssuedIds, order \in PhaseOrders :
          rows' = [rows EXCEPT !["phases"] =
                      @ \cup {[id |-> nextId, scenarioId |-> scenarioId, order |-> order]}]
    /\ nextId' = nextId + 1
    /\ UNCHANGED <<persons, scenarios, calls, storeError>>
    /\ UNCHANGED <<debtVars, stressVars, finVars, lonVars, timelineVars, uiVars, savingsVars, diffVars, bandVars>>

\* financialActions.createAccount, createIncome, createExpense, createDebtPlan,
\* createSavingsGoal, createAssumption
FinancialCreate ==
    /\ nextId <= MaxIds
    /\ \E t \in Tables \ {"phases"}, scenarioId \in IssuedIds :
          rows' = [rows EXCEPT ![t] = @ \cup {[id |-> nextId, scenarioId |-> scenarioId]}]
    /\ nextId' = nextId + 1
    /\ UNCHANGED <<persons, scenarios, calls, storeError>>
    /\ UNCHANGED <<debtVars, stressVars, finVars, lonVars, timelineVars, uiVars, savingsVars, diffVars, bandVars>>

\* phaseActions.applyTemplate up to its first await: the count is read
ApplyTemplateCount(scenarioId, size) ==
    /\ BagCardinality(calls) < MaxCalls
    /\ calls' = calls (+) SetToBag({[op |-> "applyTemplate", scenarioId |-> scenarioId,
                                     size |-> size,
                                     existingCount |->
                                         Cardinality(WhereScenario("phases", scenarioId))]})
    /\ UNCHANGED <<persons, scenarios, rows, nextId, storeError>>
    /\ UNCHANGED <<debtVars, stressVars, finVars, lonVars, timelineVars, uiVars, savingsVars, diffVars, bandVars>>

\* the phases template.phases.map builds for the call c: ids from nextId on,
\* order: existingCount + i
TemplatePhases(c) ==
    {[id |-> nextId + i, scenarioId |-> c.scenarioId, order |-> c.existingCount + i] :
        i \in 0..(c.size - 1)}

\* phaseActions.applyTemplate from the count on: the phases are built and
\* db.phases.bulkAdd inserts them
ApplyTemplateBulkAdd(c) ==
    /\ BagIn(c, calls)
    /\ c.op = "applyTemplate"
    /\ nextId + c.size - 1 <= MaxIds
    /\ rows' = [rows EXCEPT !["phases"] = @ \cup TemplatePhases(c)]
    /\ nextId' = nextId + c.size
    /\ calls' = calls (-) SetToBag({c})
    /\ UNCHANGED <<persons, scenarios, storeError>>
    /\ UNCHANGED <<debtVars, stressVars, finVars, lonVars, timelineVars, uiVars, savingsVars, diffVars, bandVars>>

\* scenarioActions.duplicate up to its transaction: the original is read and
\* the call throws or goes on
DuplicateGet(id) ==
    /\ LET original == ScenarioGet(id)
       IN  IF DuplicateThrows(original)
           THEN /\ storeError' = {NotFound}
                /\ UNCHANGED calls
           ELSE /\ BagCardinality(calls) < MaxCalls
                /\ calls' = calls (+) SetToBag({[op |-> "duplicate", id |-> id,
                                                 original |-> original]})
                /\ UNCHANGED storeError
    /\ UNCHANGED <<persons, scenarios, rows, nextId>>
    /\ UNCHANGED <<debtVars, stressVars, finVars, lonVars, timelineVars, uiVars, savingsVars, diffVars, bandVars>>

\* the number of rows of the scenario id in the first k tables of TableOrder
RECURSIVE RowsUpTo(_, _)
RowsUpTo(k, id) ==
    IF k = 0 THEN 0
    ELSE Cardinality(WhereScenario(TableOrder[k], id)) + RowsUpTo(k - 1, id)

TablePosition(t) == CHOOSE k \in DOMAIN TableOrder : TableOrder[k] = t

\* the id uuid() gives the copy of the row r of table t: the new scenario takes
\* nextId, the copies follow table by table
CopyId(t, r, id) ==
    nextId + 1 + RowsUpTo(TablePosition(t) - 1, id)
               + Cardinality({x \in WhereScenario(t, id) : x.id < r.id})

\* the transaction of scenarioActions.duplicate: the new scenario and a copy
\* of every row of the original, keyed by the new scenario
DuplicateTransaction(c) ==
    /\ BagIn(c, calls)
    /\ c.op = "duplicate"
    /\ nextId + RowsUpTo(Len(TableOrder), c.id) <= MaxIds
    /\ LET newScenarioId == nextId
       IN  /\ scenarios' = scenarios \cup
                  {[id |-> newScenarioId, personId |-> c.original.personId]}
           /\ rows' = [t \in Tables |->
                  rows[t] \cup {[r EXCEPT !.id = CopyId(t, r, c.id),
                                          !.scenarioId = newScenarioId] :
                                   r \in WhereScenario(t, c.id)}]
           /\ nextId' = nextId + 1 + RowsUpTo(Len(TableOrder), c.id)
    /\ calls' = calls (-) SetToBag({c})
    /\ UNCHANGED <<persons, storeError>>
    /\ UNCHANGED <<debtVars, stressVars, finVars, lonVars, timelineVars, uiVars, savingsVars, diffVars, bandVars>>

StoreCallsNext ==
    \/ PersonCreate
    \/ ScenarioCreate
    \/ PhaseCreate
    \/ FinancialCreate
    \/ EntityRemove
    \/ ScenarioRemove
    \/ \E scenarioId \in IssuedIds, size \in TemplateSizes : ApplyTemplateCount(scenarioId, size)
    \/ \E c \in BagToSet(calls) : ApplyTemplateBulkAdd(c)
    \/ \E id \in IssuedIds : DuplicateGet(id)
    \/ \E c \in BagToSet(calls) : DuplicateTransaction(c)

----------------------------------------------------------------------------
(* The stores: properties of the calls *)

NoScenarioHas(id) == \A sc \in scenarios : sc.id # id

\* C21: scenarioActions.duplicate called with an id that no stored scenario
\* has throws, leaves the persons, the scenarios and every table as they are,
\* and leaves no call in flight that would write
C21_DuplicateOfUnknownRejected ==
    [][\A id \in IssuedIds :
          (NoScenarioHas(id) /\ DuplicateGet(id)) =>
              /\ storeError' = {NotFound}
              /\ UNCHANGED <<persons, scenarios, rows, nextId, calls>>]_vars

\* a call was rejected while the store holds a scenario with a row to copy
C21_Witness ==
    /\ storeError = {NotFound}
    /\ \E sc \in scenarios : \E t \in Tables : WhereScenario(t, sc.id) # {}

\* C26: every stored phase, account, income stream, expense rule, debt plan
\* and savings goal references a scenario that is stored
C26_EntitiesReferenceStoredScenario ==
    \A t \in Tables \ {"assumptions"} :
        \A r \in rows[t] : ~NoScenarioHas(r.scenarioId)

\* C27: every phase a bulk insert of applyTemplate writes has an order
\* different from that of every phase already stored for the scenario and of
\* every other phase of the same call
C27_TemplateOrdersUnique ==
    [][\A c \in BagToSet(calls) :
          ApplyTemplateBulkAdd(c) =>
              \A p \in TemplatePhases(c) :
                  /\ \A q \in WhereScenario("phases", c.scenarioId) : q.order # p.order
                  /\ \A q \in TemplatePhases(c) : q # p => q.order # p.order]_vars

----------------------------------------------------------------------------
(* computeScenarioDiff: bounds and inputs.  Net worth and cashflow are whole *)
(* units and the scores whole numbers, as the two engines return them.      *)

MaxDiffMonths == 2

DiffMonths == {0, 1}

RetirementMonths == {1}

\* netWorth and netCashflow of a projection of the series
DiffFigures == {<<500, 1000>>, <<800, -1000>>}

DiffProjections ==
    {[month |-> mo, netWorth |-> f[1], netCashflow |-> f[2]] :
        mo \in DiffMonths, f \in DiffFigures}

\* composite and freeTime of a score of the series
DiffScoreFigures == {<<40, 30>>, <<70, 60>>, <<80, 20>>}

DiffScores == {[composite |-> f[1], freeTime |-> f[2]] : f \in DiffScoreFigures}

DiffProjectionLists == UNION {[1..n -> DiffProjections] : n \in 0..MaxDiffMonths}

DiffScoreLists == UNION {[1..n -> DiffScores] : n \in 0..MaxDiffMonths}

DiffInputs ==
    [aProjections : DiffProjectionLists, bProjections : DiffProjectionLists,
     aStress : DiffScoreLists, bStress : DiffScoreLists,
     retirementMonth : RetirementMonths]

\* the input while computeScenarioDiff is not called
NoDiffInput ==
    [aProjections |-> <<>>, bProjections |-> <<>>, aStress |-> <<>>, bStress |-> <<>>,
     retirementMonth |-> 0]

----------------------------------------------------------------------------
(* computeScenarioDiff: the steps of the code *)

\* getRedZoneMonths(scores, threshold = 70)
RedZoneThreshold == 70

\* getMinimumFreeTime of no scores
FreeTimeOfNone == 100

\* projections.find((p) => p.month === retirementMonth)?.netWorth ?? 0
RECURSIVE NetWorthAt(_, _)
NetWorthAt(projs, monthStr) ==
    IF projs = <<>> THEN 0
    ELSE IF Head(projs).month = monthStr THEN Head(projs).netWorth
    ELSE NetWorthAt(Tail(projs), monthStr)

\* scores.reduce((peak, s) => (s.composite > peak.composite ? s : peak)) from
\* position k on, peak being the score kept so far
RECURSIVE PeakFrom(_, _, _)
PeakFrom(ss, k, peak) ==
    IF k > Len(ss) THEN peak
    ELSE PeakFrom(ss, k + 1, IF ss[k].composite > peak.composite THEN ss[k] ELSE peak)

\* getPeakStress(scores)?.composite ?? 0
PeakComposite(ss) == IF Len(ss) = 0 THEN 0 ELSE PeakFrom(ss, 2, ss[1]).composite

\* projections.reduce((w, p) => (p.netCashflow < w.netCashflow ? p : w))
RECURSIVE WorstFrom(_, _, _)
WorstFrom(projs, k, w) ==
    IF k > Len(projs) THEN w
    ELSE WorstFrom(projs, k + 1, IF projs[k].netCashflow < w.netCashflow THEN projs[k] ELSE w)

\* aWorst?.month ?? ''
WorstMonth(projs) == IF Len(projs) > 0 THEN WorstFrom(projs, 2, projs[1]).month ELSE NoMonth

getRedZoneMonths(ss) == Cardinality({k \in 1..Len(ss) : ss[k].composite >= RedZoneThreshold})

RECURSIVE MinFreeFrom(_, _, _)
MinFreeFrom(ss, k, least) ==
    IF k > Len(ss) THEN least
    ELSE MinFreeFrom(ss, k + 1, Min(least, 100 - ss[k].freeTime))

\* Math.min(...scores.map((s) => 100 - s.freeTime)), 100 for no scores
getMinimumFreeTime(ss) ==
    IF Len(ss) = 0 THEN FreeTimeOfNone ELSE MinFreeFrom(ss, 2, 100 - ss[1].freeTime)

\* the delta the other way round
Delta_Reversed(a, b) == a - b

\* delta: b - a
Delta(a, b) == b - a

Triple(a, b) == [a |-> a, b |-> b, delta |-> Delta(a, b)]

computeScenarioDiff(in) ==
    [netWorthAtRetirement |-> Triple(NetWorthAt(in.aProjections, in.retirementMonth),
                                     NetWorthAt(in.bProjections, in.retirementMonth)),
     peakStress |-> Triple(PeakComposite(in.aStress), PeakComposite(in.bStress)),
     worstMonth |-> [a |-> WorstMonth(in.aProjections), b |-> WorstMonth(in.bProjections)],
     redZoneMonths |-> Triple(getRedZoneMonths(in.aStress), getRedZoneMonths(in.bStress)),
     freeTimeMinimum |-> Triple(getMinimumFreeTime(in.aStress),
                                getMinimumFreeTime(in.bStress))]

----------------------------------------------------------------------------
(* computeScenarioDiff: the call *)

ScenarioDiff ==
    /\ diffPc = "start"
    /\ diffResult' = computeScenarioDiff(diffInput)
    /\ diffPc' = "done"
    /\ UNCHANGED diffInput
    /\ UNCHANGED <<debtVars, stressVars, storeVars, finVars, lonVars, timelineVars, uiVars, savingsVars, callVars, bandVars>>

DiffNext == ScenarioDiff

----------------------------------------------------------------------------
(* computeScenarioDiff: properties *)

\* the net worth of the first entry of the series for the month, 0 when the
\* series is empty or has no entry for it
ClaimedNetWorth(projs, monthStr) ==
    IF \E k \in 1..Len(projs) : projs[k].month = monthStr
    THEN projs[CHOOSE k \in 1..Len(projs) :
                  /\ projs[k].month = monthStr
                  /\ \A j \in 1..(k - 1) : projs[j].month # monthStr].netWorth
    ELSE 0

\* the largest composite of the series, 0 for an empty series
ClaimedPeak(ss) ==
    IF ss = <<>> THEN 0
    ELSE CHOOSE c \in {ss[k].composite : k \in 1..Len(ss)} :
             \A k \in 1..Len(ss) : ss[k].composite <= c

\* the least 100 - freeTime of the series, 100 for an empty series
ClaimedFreeTime(ss) ==
    IF ss = <<>> THEN 100
    ELSE CHOOSE f \in {100 - ss[k].freeTime : k \in 1..Len(ss)} :
             \A k \in 1..Len(ss) : f <= 100 - ss[k].freeTime

IsTriple(t, a, b) ==
    /\ DOMAIN t = {"a", "b", "delta"}
    /\ t.a = a /\ t.b = b /\ t.delta = b - a

\* the month label of a series' first entry of least net cashflow
IsWorstMonth(label, projs) ==
    IF projs = <<>> THEN label = NoMonth
    ELSE \E k \in 1..Len(projs) :
            /\ label = projs[k].month
            /\ \A j \in 1..Len(projs) : projs[k].netCashflow <= projs[j].netCashflow

----------------------------------------------------------------------------
(* computeProjection: the uncertainty band of the months from a given month *)
(* on, around whatever net worth the month's flows leave.  The net worth is *)
(* in half units, so that Math.round is exact:                              *)
(* 2 * uncertaintySpread = 1000 * sqrt(m + 1), and for a net worth h / 2    *)
(*   Math.round(h / 2 + spread) = floor((h + 1 + floor(1000 sqrt(m + 1))) / 2) *)
(*   Math.round(h / 2 - spread) = floor((h + 1 - ceil(1000 sqrt(m + 1))) / 2)  *)

MaxBandMonths == 3

BandNetWorths == {0, 1, 2469, 40000}      \* 0, 0.5, 1234.5, 20000

\* the month index the loop has reached
BandStartMonths == {0, 1, 5, 100, 500, 957, 62852, 62853}

BandInputs == [month : BandStartMonths]

NoBandInput == [month |-> 0]

\* r * r <= 1000000 * n, without a product above 2^31
SquareAtMostMillion(r, n) ==
    LET a == r \div 1000
        b == r % 1000
        t == 2000 * a * b + b * b
        q == a * a + t \div 1000000
    IN  q < n \/ (q = n /\ t % 1000000 = 0)

\* the largest r in lo..hi with r * r <= 1000000 * n
RECURSIVE RootBetween(_, _, _)
RootBetween(n, lo, hi) ==
    IF lo = hi THEN lo
    ELSE LET mid == (lo + hi + 1) \div 2
         IN  IF SquareAtMostMillion(mid, n) THEN RootBetween(n, mid, hi)
             ELSE RootBetween(n, lo, mid - 1)

\* the root of one for every month
RootThousandths_Flat(n) == 1000

\* floor(Math.sqrt(n) * 1000)
RootThousandths(n) == RootBetween(n, 0, 300000)

\* ceil(Math.sqrt(n) * 1000)
RootThousandthsUp(n) ==
    LET r == RootThousandths(n)
    IN  IF r % 1000 = 0 /\ (r \div 1000) * (r \div 1000) = n THEN r ELSE r + 1

\* Math.round(netWorth + uncertaintySpread)
BandHigh(h, month) == (h + 1 + RootThousandths(month + 1)) \div 2

\* Math.round(netWorth - uncertaintySpread)
BandLow(h, month) == (h + 1 - RootThousandthsUp(month + 1)) \div 2

\* one iteration of the loop: the band of the month is pushed
BandMonth ==
    /\ bandPc = "loop"
    /\ Len(bands) < MaxBandMonths
    /\ \E h \in BandNetWorths :
         LET month == bandInput.month + Len(bands)
         IN  bands' = Append(bands, [month |-> month,
                                     netWorth |-> h,
                                     netWorthLow |-> BandLow(h, month),
                                     netWorthHigh |-> BandHigh(h, month)])
    /\ UNCHANGED <<bandInput, bandPc>>
    /\ UNCHANGED <<debtVars, stressVars, storeVars, finVars, lonVars, timelineVars, uiVars, savingsVars, callVars, diffVars>>

BandReturn ==
    /\ bandPc = "loop"
    /\ Len(bands) >= MaxBandMonths
    /\ bandPc' = "done"
    /\ UNCHANGED <<bandInput, bands>>
    /\ UNCHANGED <<debtVars, stressVars, storeVars, finVars, lonVars, timelineVars, uiVars, savingsVars, callVars, diffVars>>

BandNext == BandMonth \/ BandReturn

----------------------------------------------------------------------------
(* computeProjection: properties of the uncertainty band *)

BandWidth(p) == p.netWorthHigh - p.netWorthLow

\* a month index before which 1000 * (sqrt(m + 2) - sqrt(m + 1)) is above 2
WideningHorizon == 60000

----------------------------------------------------------------------------
(* computeDebtPayoff: properties of payoff, conservation and interest *)

\* a run of one debt without interest whose minimum payment covers the balance
SingleCoveredDebt ==
    /\ Len(debtPlans) = 1
    /\ debtPlans[1].principalBalance > 0
    /\ debtPlans[1].annualInterestRate = 0
    /\ debtPlans[1].minimumPayment >= debtPlans[1].principalBalance

\* C25: a single debt with balance B > 0, zero interest and minimum payment
\* M >= B is paid off in exactly one month: monthsToPayoff = 1, one schedule
\* entry, total interest 0 and total paid B
C25_CoveredDebtPaidInOneMonth ==
    (dpc = "done" /\ SingleCoveredDebt) =>
        /\ Len(summaries) = 1
        /\ summaries[1].monthsToPayoff = 1
        /\ Len(schedule) = 1
        /\ summaries[1].totalInterestPaid = 0
        /\ summaries[1].totalPaid = debtPlans[1].principalBalance

\* such a run has returned; the debt had an extra payment configured, which
\* found nothing left to pay
C25_Witness ==
    /\ dpc = "done"
    /\ SingleCoveredDebt
    /\ extraForThis(debts[1]) > 0
    /\ schedule[1].payment = debtPlans[1].principalBalance

\* principal balance plus all interest accrued so far minus all payments
\* applied so far
Outstanding(d) == d.originalBalance + d.totalInterest - d.totalPaid

Distance(a, b) == IF a >= b THEN a - b ELSE b - a

\* C28: at the end of every simulated month each debt's balance is >= 0 and
\* equals its principal balance plus the interest accrued so far minus the
\* payments applied so far, so that for a paid-off debt totalPaid equals
\* originalBalance + totalInterestPaid to within 0.01
C28_BalancesConserved ==
    /\ \A i \in DOMAIN debts :
          /\ debts[i].balance >= 0
          /\ debts[i].balance = Outstanding(debts[i])
    /\ \A i \in DOMAIN summaries :
          debts[i].paidOff =>
              Distance(summaries[i].totalPaid,
                       summaries[i].originalBalance + summaries[i].totalInterestPaid)
                  <= PaidOffThreshold

\* C28 with the remainder that the payoff drops: the balance of a debt not yet
\* paid off is what is outstanding, and a paid-off debt has balance 0 with at
\* most 0.01 left outstanding
C28_ConservedUpToWriteOff ==
    \A i \in DOMAIN debts :
        /\ debts[i].balance >= 0
        /\ ~debts[i].paidOff => debts[i].balance = Outstanding(debts[i])
        /\ debts[i].paidOff =>
              /\ debts[i].balance = 0
              /\ Outstanding(debts[i]) \in 0..PaidOffThreshold

\* two months or more have been simulated; one debt was paid off with a
\* remainder dropped, another has accrued interest and is still owed
C28_Witness ==
    /\ m >= 2
    /\ \E i, j \in DOMAIN debts :
          /\ debts[i].paidOff
          /\ Outstanding(debts[i]) > 0
          /\ ~debts[j].paidOff
          /\ debts[j].totalInterest > 0
          /\ debts[j].totalPaid > 0

\* the schedule entries the step pushed
NewEntries == {k \in DOMAIN schedule' : k > Len(schedule)}

\* the interest that accrued on a debt in the step
AccruedInStep(i) == debts'[i].totalInterest - debts[i].totalInterest

InterestChargedIsAccrued ==
    \A k \in NewEntries :
        schedule'[k].interestCharged = RoundCents(AccruedInStep(schedule'[k].debtId))

\* C29: in every schedule entry interestCharged is the interest accrued on
\* that debt in that month (the balance at the start of the month times the
\* monthly rate), so that the interestCharged of a debt add up to the
\* totalInterestPaid of its summary, up to cent rounding
C29_InterestChargedIsAccrued == [][InterestChargedIsAccrued]_vars

----------------------------------------------------------------------------
(* computeStressScores: properties of the financialSurplus sub-score *)

\* the months scored so far that have a projection entry
ScoredWithProjection ==
    {k \in DOMAIN scores : ProjectionOf(projections, scores[k].month) # <<>>}

CashflowOf(k) == ProjectionOf(projections, scores[k].month)[1].netCashflow

\* C30: the financialSurplus sub-score is non-increasing in the month's net
\* cashflow, across the whole range from deficits through zero to surpluses:
\* a higher net cashflow never yields a higher financialSurplus
C30_SurplusNonIncreasing ==
    \A j, k \in ScoredWithProjection :
        CashflowOf(j) <= CashflowOf(k)
            => scores[j].financialSurplus >= scores[k].financialSurplus

\* C30 on either side of zero: among deficits, and among cashflows of zero
\* or more, a higher net cashflow never yields a higher financialSurplus
C30_NonIncreasingOnEachSide ==
    \A j, k \in ScoredWithProjection :
        (/\ CashflowOf(j) <= CashflowOf(k)
         /\ (CashflowOf(j) < 0 <=> CashflowOf(k) < 0))
            => scores[j].financialSurplus >= scores[k].financialSurplus

\* two months scored, one on a deficit and one on a smaller deficit, or one
\* on a cashflow of zero and one on a surplus, with different sub-scores
C30_Witness ==
    /\ spc = "done"
    /\ \E j, k \in ScoredWithProjection :
          /\ CashflowOf(j) < CashflowOf(k)
          /\ CashflowOf(k) < 0
          /\ scores[j].financialSurplus > scores[k].financialSurplus
          /\ scores[k].financialSurplus > 0

----------------------------------------------------------------------------
(* Specifications *)

InitDebt ==
    /\ debtPlans \in DebtPlanLists
    /\ maxMonths = MaxMonths
    /\ dpc = "start"
    /\ debts = <<>>
    /\ schedule = <<>>
    /\ m = 0
    /\ monthLog = NoLog
    /\ summaries = <<>>
    /\ phases = <<>>
    /\ projections = <<>>
    /\ startDate = <<0, 1>>
    /\ months = 0
    /\ spc = "idle"
    /\ sm = 0
    /\ activeLog = <<>>
    /\ scores = <<>>
    /\ persons = {}
    /\ scenarios = {}
    /\ rows = [t \in Tables |-> {}]
    /\ nextId = 1
    /\ finInput = NoFinancialInput
    /\ fpc = "idle"
    /\ fm = 0
    /\ netWorth = 0
    /\ balances = <<>>
    /\ flowLog = <<>>
    /\ finProjections = <<>>
    /\ lonInput = NoLongevityInput
    /\ lpc = "idle"
    /\ age = 0
    /\ survival = 0
    /\ points = <<>>
    /\ lonResult = <<>>
    /\ tlInput = NoTimelineInput
    /\ tpc = "idle"
    /\ tlResult = <<>>
    /\ viewport = [offsetX |-> 0, offsetY |-> 0, pixelsPerDay |-> ZOOM_PRESETS["year"]]
    /\ zoomLevel = "year"
    /\ uiEvents = 0
    /\ goals = <<>>
    /\ gpc = "idle"
    /\ gi = 1
    /\ cursor = <<0, 1>>
    /\ balance = 0
    /\ result = <<>>
    /\ calls = EmptyBag
    /\ storeError = NoError
    /\ diffInput = NoDiffInput
    /\ diffPc = "idle"
    /\ diffResult = computeScenarioDiff(NoDiffInput)
    /\ bandInput = NoBandInput
    /\ bandPc = "idle"
    /\ bands = <<>>

SpecDebt == InitDebt /\ [][DebtNext]_vars

InitStress ==
    /\ phases \in PhaseLists
    /\ projections \in ProjectionLists
    /\ startDate \in StressStartDates
    /\ months = MaxStressMonths
    /\ spc = "loop"
    /\ sm = 0
    /\ activeLog = <<>>
    /\ scores = <<>>
    /\ debtPlans = <<>>
    /\ maxMonths = 0
    /\ dpc = "idle"
    /\ debts = <<>>
    /\ schedule = <<>>
    /\ m = 0
    /\ monthLog = NoLog
    /\ summaries = <<>>
    /\ persons = {}
    /\ scenarios = {}
    /\ rows = [t \in Tables |-> {}]
    /\ nextId = 1
    /\ finInput = NoFinancialInput
    /\ fpc = "idle"
    /\ fm = 0
    /\ netWorth = 0
    /\ balances = <<>>
    /\ flowLog = <<>>
    /\ finProjections = <<>>
    /\ lonInput = NoLongevityInput
    /\ lpc = "idle"
    /\ age = 0
    /\ survival = 0
    /\ points = <<>>
    /\ lonResult = <<>>
    /\ tlInput = NoTimelineInput
    /\ tpc = "idle"
    /\ tlResult = <<>>
    /\ viewport = [offsetX |-> 0, offsetY |-> 0, pixelsPerDay |-> ZOOM_PRESETS["year"]]
    /\ zoomLevel = "year"
    /\ uiEvents = 0
    /\ goals = <<>>
    /\ gpc = "idle"
    /\ gi = 1
    /\ cursor = <<0, 1>>
    /\ balance = 0
    /\ result = <<>>
    /\ calls = EmptyBag
    /\ storeError = NoError
    /\ diffInput = NoDiffInput
    /\ diffPc = "idle"
    /\ diffResult = computeScenarioDiff(NoDiffInput)
    /\ bandInput = NoBandInput
    /\ bandPc = "idle"
    /\ bands = <<>>

SpecStress == InitStress /\ [][StressNext]_vars

InitStore ==
    /\ persons = {}
    /\ scenarios = {}
    /\ rows = [t \in Tables |-> {}]
    /\ nextId = 1
    /\ debtPlans = <<>>
    /\ maxMonths = 0
    /\ dpc = "idle"
    /\ debts = <<>>
    /\ schedule = <<>>
    /\ m = 0
    /\ monthLog = NoLog
    /\ summaries = <<>>
    /\ phases = <<>>
    /\ projections = <<>>
    /\ startDate = <<0, 1>>
    /\ months = 0
    /\ spc = "idle"
    /\ sm = 0
    /\ activeLog = <<>>
    /\ scores = <<>>
    /\ finInput = NoFinancialInput
    /\ fpc = "idle"
    /\ fm = 0
    /\ netWorth = 0
    /\ balances = <<>>
    /\ flowLog = <<>>
    /\ finProjections = <<>>
    /\ lonInput = NoLongevityInput
    /\ lpc = "idle"
    /\ age = 0
    /\ survival = 0
    /\ points = <<>>
    /\ lonResult = <<>>
    /\ tlInput = NoTimelineInput
    /\ tpc = "idle"
    /\ tlResult = <<>>
    /\ viewport = [offsetX |-> 0, offsetY |-> 0, pixelsPerDay |-> ZOOM_PRESETS["year"]]
    /\ zoomLevel = "year"
    /\ uiEvents = 0
    /\ goals = <<>>
    /\ gpc = "idle"
    /\ gi = 1
    /\ cursor = <<0, 1>>
    /\ balance = 0
    /\ result = <<>>
    /\ calls = EmptyBag
    /\ storeError = NoError
    /\ diffInput = NoDiffInput
    /\ diffPc = "idle"
    /\ diffResult = computeScenarioDiff(NoDiffInput)
    /\ bandInput = NoBandInput
    /\ bandPc = "idle"
    /\ bands = <<>>

SpecStore == InitStore /\ [][StoreNext]_vars

InitProjection ==
    /\ finInput \in FinancialInputs
    /\ fpc = "start"
    /\ fm = 0
    /\ netWorth = 0
    /\ balances = <<>>
    /\ flowLog = <<>>
    /\ finProjections = <<>>
    /\ debtPlans = <<>>
    /\ maxMonths = 0
    /\ dpc = "idle"
    /\ debts = <<>>
    /\ schedule = <<>>
    /\ m = 0
    /\ monthLog = NoLog
    /\ summaries = <<>>
    /\ phases = <<>>
    /\ projections = <<>>
    /\ startDate = <<0, 1>>
    /\ months = 0
    /\ spc = "idle"
    /\ sm = 0
    /\ activeLog = <<>>
    /\ scores = <<>>
    /\ persons = {}
    /\ scenarios = {}
    /\ rows = [t \in Tables |-> {}]
    /\ nextId = 1
    /\ lonInput = NoLongevityInput
    /\ lpc = "idle"
    /\ age = 0
    /\ survival = 0
    /\ points = <<>>
    /\ lonResult = <<>>
    /\ tlInput = NoTimelineInput
    /\ tpc = "idle"
    /\ tlResult = <<>>
    /\ viewport = [offsetX |-> 0, offsetY |-> 0, pixelsPerDay |-> ZOOM_PRESETS["year"]]
    /\ zoomLevel = "year"
    /\ uiEvents = 0
    /\ goals = <<>>
    /\ gpc = "idle"
    /\ gi = 1
    /\ cursor = <<0, 1>>
    /\ balance = 0
    /\ result = <<>>
    /\ calls = EmptyBag
    /\ storeError = NoError
    /\ diffInput = NoDiffInput
    /\ diffPc = "idle"
    /\ diffResult = computeScenarioDiff(NoDiffInput)
    /\ bandInput = NoBandInput
    /\ bandPc = "idle"
    /\ bands = <<>>

SpecProjection == InitProjection /\ [][ProjectionNext]_vars

InitLongevity ==
    /\ lonInput \in LongevityInputs
    /\ lpc = "loop"
    /\ age = FloorAge(lonInput.currentAge)
    /\ survival = One
    /\ points = <<>>
    /\ lonResult = <<>>
    /\ debtPlans = <<>>
    /\ maxMonths = 0
    /\ dpc = "idle"
    /\ debts = <<>>
    /\ schedule = <<>>
    /\ m = 0
    /\ monthLog = NoLog
    /\ summaries = <<>>
    /\ phases = <<>>
    /\ projections = <<>>
    /\ startDate = <<0, 1>>
    /\ months = 0
    /\ spc = "idle"
    /\ sm = 0
    /\ activeLog = <<>>
    /\ scores = <<>>
    /\ persons = {}
    /\ scenarios = {}
    /\ rows = [t \in Tables |-> {}]
    /\ nextId = 1
    /\ finInput = NoFinancialInput
    /\ fpc = "idle"
    /\ fm = 0
    /\ netWorth = 0
    /\ balances = <<>>
    /\ flowLog = <<>>
    /\ finProjections = <<>>
    /\ tlInput = NoTimelineInput
    /\ tpc = "idle"
    /\ tlResult = <<>>
    /\ viewport = [offsetX |-> 0, offsetY |-> 0, pixelsPerDay |-> ZOOM_PRESETS["year"]]
    /\ zoomLevel = "year"
    /\ uiEvents = 0
    /\ goals = <<>>
    /\ gpc = "idle"
    /\ gi = 1
    /\ cursor = <<0, 1>>
    /\ balance = 0
    /\ result = <<>>
    /\ calls = EmptyBag
    /\ storeError = NoError
    /\ diffInput = NoDiffInput
    /\ diffPc = "idle"
    /\ diffResult = computeScenarioDiff(NoDiffInput)
    /\ bandInput = NoBandInput
    /\ bandPc = "idle"
    /\ bands = <<>>

SpecLongevity == InitLongevity /\ [][LongevityNext]_vars

InitTimeline ==
    /\ tlInput \in TimelineInputs
    /\ tpc = "start"
    /\ tlResult = <<>>
    /\ debtPlans = <<>>
    /\ maxMonths = 0
    /\ dpc = "idle"
    /\ debts = <<>>
    /\ schedule = <<>>
    /\ m = 0
    /\ monthLog = NoLog
    /\ summaries = <<>>
    /\ phases = <<>>
    /\ projections = <<>>
    /\ startDate = <<0, 1>>
    /\ months = 0
    /\ spc = "idle"
    /\ sm = 0
    /\ activeLog = <<>>
    /\ scores = <<>>
    /\ persons = {}
    /\ scenarios = {}
    /\ rows = [t \in Tables |-> {}]
    /\ nextId = 1
    /\ finInput = NoFinancialInput
    /\ fpc = "idle"
    /\ fm = 0
    /\ netWorth = 0
    /\ balances = <<>>
    /\ flowLog = <<>>
    /\ finProjections = <<>>
    /\ lonInput = NoLongevityInput
    /\ lpc = "idle"
    /\ age = 0
    /\ survival = 0
    /\ points = <<>>
    /\ lonResult = <<>>
    /\ viewport = [offsetX |-> 0, offsetY |-> 0, pixelsPerDay |-> ZOOM_PRESETS["year"]]
    /\ zoomLevel = "year"
    /\ uiEvents = 0
    /\ goals = <<>>
    /\ gpc = "idle"
    /\ gi = 1
    /\ cursor = <<0, 1>>
    /\ balance = 0
    /\ result = <<>>
    /\ calls = EmptyBag
    /\ storeError = NoError
    /\ diffInput = NoDiffInput
    /\ diffPc = "idle"
    /\ diffResult = computeScenarioDiff(NoDiffInput)
    /\ bandInput = NoBandInput
    /\ bandPc = "idle"
    /\ bands = <<>>

SpecTimeline == InitTimeline /\ [][TimelineNext]_vars

InitUi ==
    /\ viewport = [offsetX |-> 0, offsetY |-> 0, pixelsPerDay |-> ZOOM_PRESETS["year"]]
    /\ zoomLevel = "year"
    /\ uiEvents = 0
    /\ debtPlans = <<>>
    /\ maxMonths = 0
    /\ dpc = "idle"
    /\ debts = <<>>
    /\ schedule = <<>>
    /\ m = 0
    /\ monthLog = NoLog
    /\ summaries = <<>>
    /\ phases = <<>>
    /\ projections = <<>>
    /\ startDate = <<0, 1>>
    /\ months = 0
    /\ spc = "idle"
    /\ sm = 0
    /\ activeLog = <<>>
    /\ scores = <<>>
    /\ persons = {}
    /\ scenarios = {}
    /\ rows = [t \in Tables |-> {}]
    /\ nextId = 1
    /\ finInput = NoFinancialInput
    /\ fpc = "idle"
    /\ fm = 0
    /\ netWorth = 0
    /\ balances = <<>>
    /\ flowLog = <<>>
    /\ finProjections = <<>>
    /\ lonInput = NoLongevityInput
    /\ lpc = "idle"
    /\ age = 0
    /\ survival = 0
    /\ points = <<>>
    /\ lonResult = <<>>
    /\ tlInput = NoTimelineInput
    /\ tpc = "idle"
    /\ tlResult = <<>>
    /\ goals = <<>>
    /\ gpc = "idle"
    /\ gi = 1
    /\ cursor = <<0, 1>>
    /\ balance = 0
    /\ result = <<>>
    /\ calls = EmptyBag
    /\ storeError = NoError
    /\ diffInput = NoDiffInput
    /\ diffPc = "idle"
    /\ diffResult = computeScenarioDiff(NoDiffInput)
    /\ bandInput = NoBandInput
    /\ bandPc = "idle"
    /\ bands = <<>>

SpecUi == InitUi /\ [][UiNext]_vars

InitSavings ==
    /\ goals \in SavingsGoalLists
    /\ gpc = "goal"
    /\ gi = 1
    /\ cursor = <<0, 1>>
    /\ balance = 0
    /\ result = <<>>
    /\ debtPlans = <<>>
    /\ maxMonths = 0
    /\ dpc = "idle"
    /\ debts = <<>>
    /\ schedule = <<>>
    /\ m = 0
    /\ monthLog = NoLog
    /\ summaries = <<>>
    /\ phases = <<>>
    /\ projections = <<>>
    /\ startDate = <<0, 1>>
    /\ months = 0
    /\ spc = "idle"
    /\ sm = 0
    /\ activeLog = <<>>
    /\ scores = <<>>
    /\ persons = {}
    /\ scenarios = {}
    /\ rows = [t \in Tables |-> {}]
    /\ nextId = 1
    /\ finInput = NoFinancialInput
    /\ fpc = "idle"
    /\ fm = 0
    /\ netWorth = 0
    /\ balances = <<>>
    /\ flowLog = <<>>
    /\ finProjections = <<>>
    /\ lonInput = NoLongevityInput
    /\ lpc = "idle"
    /\ age = 0
    /\ survival = 0
    /\ points = <<>>
    /\ lonResult = <<>>
    /\ tlInput = NoTimelineInput
    /\ tpc = "idle"
    /\ tlResult = <<>>
    /\ viewport = [offsetX |-> 0, offsetY |-> 0, pixelsPerDay |-> ZOOM_PRESETS["year"]]
    /\ zoomLevel = "year"
    /\ uiEvents = 0
    /\ calls = EmptyBag
    /\ storeError = NoError
    /\ diffInput = NoDiffInput
    /\ diffPc = "idle"
    /\ diffResult = computeScenarioDiff(NoDiffInput)
    /\ bandInput = NoBandInput
    /\ bandPc = "idle"
    /\ bands = <<>>

SpecSavings == InitSavings /\ [][SavingsNext]_vars

InitStoreCalls ==
    /\ persons = {}
    /\ scenarios = {}
    /\ rows = [t \in Tables |-> {}]
    /\ nextId = 1
    /\ calls = EmptyBag
    /\ storeError = NoError
    /\ debtPlans = <<>>
    /\ maxMonths = 0
    /\ dpc = "idle"
    /\ debts = <<>>
    /\ schedule = <<>>
    /\ m = 0
    /\ monthLog = NoLog
    /\ summaries = <<>>
    /\ phases = <<>>
    /\ projections = <<>>
    /\ startDate = <<0, 1>>
    /\ months = 0
    /\ spc = "idle"
    /\ sm = 0
    /\ activeLog = <<>>
    /\ scores = <<>>
    /\ finInput = NoFinancialInput
    /\ fpc = "idle"
    /\ fm = 0
    /\ netWorth = 0
    /\ balances = <<>>
    /\ flowLog = <<>>
    /\ finProjections = <<>>
    /\ lonInput = NoLongevityInput
    /\ lpc = "idle"
    /\ age = 0
    /\ survival = 0
    /\ points = <<>>
    /\ lonResult = <<>>
    /\ tlInput = NoTimelineInput
    /\ tpc = "idle"
    /\ tlResult = <<>>
    /\ viewport = [offsetX |-> 0, offsetY |-> 0, pixelsPerDay |-> ZOOM_PRESETS["year"]]
    /\ zoomLevel = "year"
    /\ uiEvents = 0
    /\ goals = <<>>
    /\ gpc = "idle"
    /\ gi = 1
    /\ cursor = <<0, 1>>
    /\ balance = 0
    /\ result = <<>>
    /\ diffInput = NoDiffInput
    /\ diffPc = "idle"
    /\ diffResult = computeScenarioDiff(NoDiffInput)
    /\ bandInput = NoBandInput
    /\ bandPc = "idle"
    /\ bands = <<>>

SpecStoreCalls == InitStoreCalls /\ [][StoreCallsNext]_vars

InitDiff ==
    /\ diffInput \in DiffInputs
    /\ diffPc = "start"
    /\ diffResult = computeScenarioDiff(NoDiffInput)
    /\ debtPlans = <<>>
    /\ maxMonths = 0
    /\ dpc = "idle"
    /\ debts = <<>>
    /\ schedule = <<>>
    /\ m = 0
    /\ monthLog = NoLog
    /\ summaries = <<>>
    /\ phases = <<>>
    /\ projections = <<>>
    /\ startDate = <<0, 1>>
    /\ months = 0
    /\ spc = "idle"
    /\ sm = 0
    /\ activeLog = <<>>
    /\ scores = <<>>
    /\ persons = {}
    /\ scenarios = {}
    /\ rows = [t \in Tables |-> {}]
    /\ nextId = 1
    /\ finInput = NoFinancialInput
    /\ fpc = "idle"
    /\ fm = 0
    /\ netWorth = 0
    /\ balances = <<>>
    /\ flowLog = <<>>
    /\ finProjections = <<>>
    /\ lonInput = NoLongevityInput
    /\ lpc = "idle"
    /\ age = 0
    /\ survival = 0
    /\ points = <<>>
    /\ lonResult = <<>>
    /\ tlInput = NoTimelineInput
    /\ tpc = "idle"
    /\ tlResult = <<>>
    /\ viewport = [offsetX |-> 0, offsetY |-> 0, pixelsPerDay |-> ZOOM_PRESETS["year"]]
    /\ zoomLevel = "year"
    /\ uiEvents = 0
    /\ goals = <<>>
    /\ gpc = "idle"
    /\ gi = 1
    /\ cursor = <<0, 1>>
    /\ balance = 0
    /\ result = <<>>
    /\ calls = EmptyBag
    /\ storeError = NoError
    /\ bandInput = NoBandInput
    /\ bandPc = "idle"
    /\ bands = <<>>

SpecDiff == InitDiff /\ [][DiffNext]_vars

InitBand ==
    /\ bandInput \in BandInputs
    /\ bandPc = "loop"
    /\ bands = <<>>
    /\ debtPlans = <<>>
    /\ maxMonths = 0
    /\ dpc = "idle"
    /\ debts = <<>>
    /\ schedule = <<>>
    /\ m = 0
    /\ monthLog = NoLog
    /\ summaries = <<>>
    /\ phases = <<>>
    /\ projections = <<>>
    /\ startDate = <<0, 1>>
    /\ months = 0
    /\ spc = "idle"
    /\ sm = 0
    /\ activeLog = <<>>
    /\ scores = <<>>
    /\ persons = {}
    /\ scenarios = {}
    /\ rows = [t \in Tables |-> {}]
    /\ nextId = 1
    /\ finInput = NoFinancialInput
    /\ fpc = "idle"
    /\ fm = 0
    /\ netWorth = 0
    /\ balances = <<>>
    /\ flowLog = <<>>
    /\ finProjections = <<>>
    /\ lonInput = NoLongevityInput
    /\ lpc = "idle"
    /\ age = 0
    /\ survival = 0
    /\ points = <<>>
    /\ lonResult = <<>>
    /\ tlInput = NoTimelineInput
    /\ tpc = "idle"
    /\ tlResult = <<>>
    /\ viewport = [offsetX |-> 0, offsetY |-> 0, pixelsPerDay |-> ZOOM_PRESETS["year"]]
    /\ zoomLevel = "year"
    /\ uiEvents = 0
    /\ goals = <<>>
    /\ gpc = "idle"
    /\ gi = 1
    /\ cursor = <<0, 1>>
    /\ balance = 0
    /\ result = <<>>
    /\ calls = EmptyBag
    /\ storeError = NoError
    /\ diffInput = NoDiffInput
    /\ diffPc = "idle"
    /\ diffResult = computeScenarioDiff(NoDiffInput)

SpecBand == InitBand /\ [][BandNext]_vars

----------------------------------------------------------------------------
(* The four engines over the data of one caller: a call of computeDebtPayoff, *)
(* computeProjection, computeSavingsProjection or computeStressScores          *)

InitEngines == InitDebt \/ InitProjection \/ InitSavings \/ InitStress

EnginesNext == DebtNext \/ ProjectionNext \/ SavingsNext \/ StressNext

SpecEngines == InitEngines /\ [][EnginesNext]_vars

====
